---- MODULE Spec2Model ----
(***************************************************************************)
(* git-selective-ignore: the content transformer, the backup store and the *)
(* commit lifecycle engine (pre-commit clean, post-commit restore, verify).*)
(* Text is a sequence of one-character strings; a path is such a sequence  *)
(* too.  A missing file or index entry is NoFile, a missing record None.   *)
(***************************************************************************)
EXTENDS Integers, Sequences, FiniteSets, TLC

VARIABLES
    config,      \* .git/selective-ignore.toml: [files, auto_cleanup, backup_strategy]
    global_config, \* ~/.config/git-selective-ignore/config.toml, or None
    wt,          \* working tree: path -> text or NoFile
    index,       \* git index (staging area): path -> text or NoFile
    head,        \* tree of the HEAD commit: path -> text or NoFile
    backups,     \* the storage provider's records: key -> BackupData
    temp_dir,    \* TempFileStorage: does .git/selective-ignore-backups exist
    op,          \* the engine operation that ran last, with its arguments
    res,         \* its result: "Ok" or an error
    pre,         \* working tree, index and records as they were before it ran
    edits,       \* how many times the user has changed the working tree
    commits      \* how many commits git has recorded

vars == <<config, global_config, wt, index, head, backups, temp_dir,
          op, res, pre, edits, commits>>

\* a file, index entry or text that is not there; a record that is not there
NoFile == <<"NoFile">>
None == [none |-> TRUE]

-----------------------------------------------------------------------------
(* Text helpers: what the Rust standard library calls used by the code do. *)

WhiteSpace == {" ", "\t", "\n", "\r"}

WordChars ==
    {"a","b","c","d","e","f","g","h","i","j","k","l","m","n","o","p","q","r",
     "s","t","u","v","w","x","y","z","A","B","C","D","E","F","G","H","I","J",
     "K","L","M","N","O","P","Q","R","S","T","U","V","W","X","Y","Z","0","1",
     "2","3","4","5","6","7","8","9","_"}

\* str::strip_suffix('\r') as str::lines applies it to a line that ended in '\n'
StripCR(line) ==
    IF Len(line) > 0 /\ line[Len(line)] = "\r"
    THEN SubSeq(line, 1, Len(line) - 1)
    ELSE line

RECURSIVE SplitLines(_, _, _)
SplitLines(s, i, cur) ==
    IF i > Len(s)
    THEN (IF cur = <<>> THEN <<>> ELSE <<cur>>)
    ELSE IF s[i] = "\n"
         THEN <<StripCR(cur)>> \o SplitLines(s, i + 1, <<>>)
         ELSE SplitLines(s, i + 1, Append(cur, s[i]))

\* str::lines: split at "\n" (or "\r\n"); no line for a final newline
Lines(s) == SplitLines(s, 1, <<>>)

\* str::contains with a literal needle
Contains(line, needle) ==
    \E i \in 1..(Len(line) + 1) :
        /\ i + Len(needle) - 1 <= Len(line)
        /\ SubSeq(line, i, i + Len(needle) - 1) = needle

StartsWith(s, c) == Len(s) > 0 /\ s[1] = c
EndsWith(s, c) == Len(s) > 0 /\ s[Len(s)] = c

RECURSIVE TrimStart(_)
TrimStart(s) ==
    IF Len(s) > 0 /\ s[1] \in WhiteSpace THEN TrimStart(Tail(s)) ELSE s

RECURSIVE TrimEnd(_)
TrimEnd(s) ==
    IF Len(s) > 0 /\ s[Len(s)] \in WhiteSpace
    THEN TrimEnd(SubSeq(s, 1, Len(s) - 1))
    ELSE s

\* str::trim
Trim(s) == TrimEnd(TrimStart(s))

RECURSIVE SplitOn(_, _, _, _)
SplitOn(s, sep, i, cur) ==
    IF i > Len(s)
    THEN <<cur>>
    ELSE IF i + Len(sep) - 1 <= Len(s) /\ SubSeq(s, i, i + Len(sep) - 1) = sep
         THEN <<cur>> \o SplitOn(s, sep, i + Len(sep), <<>>)
         ELSE SplitOn(s, sep, i + 1, Append(cur, s[i]))

\* str::split(sep).collect()
Split(s, sep) == SplitOn(s, sep, 1, <<>>)

DigitVal(c) ==
    CASE c = "0" -> 0 [] c = "1" -> 1 [] c = "2" -> 2 [] c = "3" -> 3
      [] c = "4" -> 4 [] c = "5" -> 5 [] c = "6" -> 6 [] c = "7" -> 7
      [] c = "8" -> 8 [] c = "9" -> 9 [] OTHER -> -1

RECURSIVE DigitsValue(_, _)
DigitsValue(s, acc) ==
    IF s = <<>> THEN acc
    ELSE IF DigitVal(s[1]) < 0 THEN -1
    ELSE DigitsValue(Tail(s), acc * 10 + DigitVal(s[1]))

\* str::parse::<usize>: the value, or -1 for Err (empty, sign only, non-digit)
ParseUsize(s) ==
    LET body == IF StartsWith(s, "+") THEN Tail(s) ELSE s
    IN IF body = <<>> THEN -1 ELSE DigitsValue(body, 0)

RECURSIVE JoinLines(_)
\* [&str]::join("\n")
JoinLines(ls) ==
    IF ls = <<>> THEN <<>>
    ELSE IF Len(ls) = 1 THEN ls[1]
    ELSE ls[1] \o <<"\n">> \o JoinLines(Tail(ls))

-----------------------------------------------------------------------------
(* Patterns (builders/patterns.rs).  A pattern is a record                  *)
(* [id, pattern_type, specification]; a match result is "yes", "no",        *)
(* "err" (the function returns Err) or "panic" (the process aborts).        *)

LineRegex == "LineRegex"
LineNumber == "LineNumber"
LineRange == "LineRange"
BlockStartEnd == "BlockStartEnd"

\* Regex::new on the modelled fragment: literal characters with an optional
\* leading ^ and trailing $.  The fragment has no closing bracket, so an
\* opening one is an unclosed group or class, which Regex::new rejects.
RegexNewFails(re) == \E i \in 1..Len(re) : re[i] \in {"(", "["}

\* Regex::is_match for the fragment
RegexIsMatch(re, line) ==
    LET anchoredStart == StartsWith(re, "^")
        r1 == IF anchoredStart THEN Tail(re) ELSE re
        anchoredEnd == EndsWith(r1, "$")
        lit == IF anchoredEnd THEN SubSeq(r1, 1, Len(r1) - 1) ELSE r1
    IN \E i \in 1..(Len(line) + 1) :
          /\ i + Len(lit) - 1 <= Len(line)
          /\ SubSeq(line, i, i + Len(lit) - 1) = lit
          /\ anchoredStart => i = 1
          /\ anchoredEnd => i + Len(lit) - 1 = Len(line)

IsWordAt(line, i) == i >= 1 /\ i <= Len(line) /\ line[i] \in WordChars

RECURSIVE SkipSpace(_, _)
\* the position after a maximal run of whitespace starting at i (regex \s*)
SkipSpace(line, i) ==
    IF i <= Len(line) /\ line[i] \in WhiteSpace THEN SkipSpace(line, i + 1) ELSE i

\* (?:"[^"]+"|'[^']+') at position i: a quote, one or more other characters,
\* the same quote
QuotedValueAt(line, i) ==
    /\ i <= Len(line)
    /\ line[i] \in {"\"", "'"}
    /\ \E j \in (i + 2)..Len(line) :
          /\ line[j] = line[i]
          /\ \A k \in (i + 1)..(j - 1) : line[k] # line[i]

\* the search without the \b in front of the identifier
AssignmentIsMatch_unbounded(ident, line) ==
    \E i \in 1..(Len(line) + 1) :
        /\ i + Len(ident) - 1 <= Len(line)
        /\ SubSeq(line, i, i + Len(ident) - 1) = ident
        /\ LET e == SkipSpace(line, i + Len(ident))
           IN /\ e <= Len(line)
              /\ line[e] = "="
              /\ QuotedValueAt(line, SkipSpace(line, e + 1))

\* the regex \b<ident>\s*=\s*(?:"[^"]+"|'[^']+') searched in line
AssignmentIsMatch(ident, line) ==
    \E i \in 1..(Len(line) + 1) :
        /\ IsWordAt(line, i - 1) # IsWordAt(line, i)
        /\ i + Len(ident) - 1 <= Len(line)
        /\ SubSeq(line, i, i + Len(ident) - 1) = ident
        /\ LET e == SkipSpace(line, i + Len(ident))
           IN /\ e <= Len(line)
              /\ line[e] = "="
              /\ QuotedValueAt(line, SkipSpace(line, e + 1))

\* create_line_regex_pattern and Regex::new().is_match() of matches_line:
\* a specification between slashes is a raw regex, anything else an
\* identifier that must be assigned a quoted value
LineRegexMatch(spec, line) ==
    IF StartsWith(spec, "/") /\ EndsWith(spec, "/")
    THEN IF Len(spec) < 2 THEN "panic"     \* &spec[1..len-1] with len = 1
         ELSE LET re == SubSeq(spec, 2, Len(spec) - 1)
              IN IF RegexNewFails(re) THEN "err"
                 ELSE IF RegexIsMatch(re, line) THEN "yes" ELSE "no"
    ELSE IF AssignmentIsMatch(spec, line) THEN "yes" ELSE "no"

\* line_number == target_line, target_line being the parsed specification
LineNumberIs(target_line, line_number) ==
    IF target_line < 0 THEN "err"
    ELSE IF line_number = target_line THEN "yes" ELSE "no"

LineNumberMatch(spec, line_number) ==
    LineNumberIs(ParseUsize(spec), line_number)

\* a range that leaves its last line out
LineRangeHas_exclusive(start, end, line_number) ==
    IF end < 0 THEN "err"
    ELSE IF line_number >= start /\ line_number < end THEN "yes" ELSE "no"

\* line_number >= start && line_number <= end, end being the parsed parts[1]
LineRangeHas(start, end, line_number) ==
    IF end < 0 THEN "err"
    ELSE IF line_number >= start /\ line_number <= end THEN "yes" ELSE "no"

\* parts[0].parse()?, then parts[1], which is out of bounds without a '-'
LineRangeParts(parts, line_number) ==
    IF ParseUsize(parts[1]) < 0 THEN "err"
    ELSE IF Len(parts) < 2 THEN "panic"
    ELSE LineRangeHas(ParseUsize(parts[1]), ParseUsize(parts[2]), line_number)

LineRangeMatch(spec, line_number) ==
    LineRangeParts(Split(spec, <<"-">>), line_number)

\* PatternMatcher::matches_line
matches_line(p, line, line_number) ==
    CASE p.pattern_type = LineRegex -> LineRegexMatch(p.specification, line)
      [] p.pattern_type = LineNumber -> LineNumberMatch(p.specification, line_number)
      [] p.pattern_type = LineRange -> LineRangeMatch(p.specification, line_number)
      [] OTHER -> "no"

RECURSIVE FindEnd(_, _, _)
\* the first index j >= from with lines[j] containing end_pattern, or 0
FindEnd(lines, end_pattern, from) ==
    IF from > Len(lines) THEN 0
    ELSE IF Contains(lines[from], end_pattern) THEN from
    ELSE FindEnd(lines, end_pattern, from + 1)

RECURSIVE BlockScan_to_eof(_, _, _, _)
\* a scan for which a block without an end line runs to the last line
BlockScan_to_eof(lines, start_pattern, end_pattern, i) ==
    IF i > Len(lines) THEN <<>>
    ELSE IF Contains(lines[i], start_pattern)
         THEN IF FindEnd(lines, end_pattern, i + 1) > 0
              THEN <<<<i, FindEnd(lines, end_pattern, i + 1)>>>>
                   \o BlockScan_to_eof(lines, start_pattern, end_pattern,
                                       FindEnd(lines, end_pattern, i + 1) + 1)
              ELSE <<<<i, Len(lines)>>>>
         ELSE BlockScan_to_eof(lines, start_pattern, end_pattern, i + 1)

RECURSIVE BlockScan_rescans(_, _, _, _)
\* a scan that goes on at the line after the start line of a block
BlockScan_rescans(lines, start_pattern, end_pattern, i) ==
    IF i > Len(lines) THEN <<>>
    ELSE IF Contains(lines[i], start_pattern)
            /\ FindEnd(lines, end_pattern, i + 1) > 0
         THEN <<<<i, FindEnd(lines, end_pattern, i + 1)>>>>
              \o BlockScan_rescans(lines, start_pattern, end_pattern, i + 1)
         ELSE BlockScan_rescans(lines, start_pattern, end_pattern, i + 1)

RECURSIVE BlockScan(_, _, _, _)
\* the while loop of get_block_range; i is the 1-based line under the cursor
BlockScan(lines, start_pattern, end_pattern, i) ==
    IF i > Len(lines) THEN <<>>
    ELSE IF Contains(lines[i], start_pattern)
            /\ FindEnd(lines, end_pattern, i + 1) > 0
         THEN <<<<i, FindEnd(lines, end_pattern, i + 1)>>>>
              \o BlockScan(lines, start_pattern, end_pattern,
                           FindEnd(lines, end_pattern, i + 1) + 1)
         ELSE BlockScan(lines, start_pattern, end_pattern, i + 1)

\* IgnorePattern::validate for a LineRegex: the slice between the slashes
\* is out of range for the specification "/", anything not between slashes
\* is escaped and always compiles
validate_regex(spec) ==
    IF StartsWith(spec, "/") /\ EndsWith(spec, "/")
    THEN IF Len(spec) < 2 THEN "panic"
         ELSE IF RegexNewFails(SubSeq(spec, 2, Len(spec) - 1)) THEN "Err"
         ELSE "Ok"
    ELSE "Ok"

\* IgnorePattern::validate for a LineRange, parts being the specification
\* split at '-'
validate_range(parts) ==
    IF Len(parts) # 2 THEN "Err"
    ELSE IF ParseUsize(parts[1]) < 0 \/ ParseUsize(parts[2]) < 0 THEN "Err"
    ELSE "Ok"

\* IgnorePattern::validate for a BlockStartEnd, parts being the
\* specification split at "|||"
validate_block(parts) ==
    IF Len(parts) # 2 THEN "Err"
    ELSE IF Trim(parts[1]) = <<>> \/ Trim(parts[2]) = <<>> THEN "Err"
    ELSE "Ok"

\* IgnorePattern::validate: "Ok", "Err" or "panic"
validate(p) ==
    CASE p.pattern_type = LineRegex -> validate_regex(p.specification)
      [] p.pattern_type = LineNumber ->
            IF ParseUsize(p.specification) < 0 THEN "Err" ELSE "Ok"
      [] p.pattern_type = LineRange ->
            validate_range(Split(p.specification, <<"-">>))
      [] p.pattern_type = BlockStartEnd ->
            validate_block(Split(p.specification, <<"|", "|", "|">>))

BlockSeparator == <<"|", "|", "|">>

\* PatternMatcher::get_block_range: [status, ranges], ranges 1-based inclusive
\* get_block_range once the specification is split at the separator
BlockRanges(parts, content) ==
    IF Len(parts) # 2 THEN [status |-> "err", ranges |-> <<>>]
    ELSE [status |-> "ok",
          ranges |-> BlockScan(Lines(content), Trim(parts[1]), Trim(parts[2]), 1)]

get_block_range(p, content) ==
    IF p.pattern_type # BlockStartEnd THEN [status |-> "ok", ranges |-> <<>>]
    ELSE BlockRanges(Split(p.specification, BlockSeparator), content)

-----------------------------------------------------------------------------
(* The content transformer (IgnoreEngine::process_file_content).           *)

\* one line of the per-line loop: m is the answer of matches_line for the
\* 1-based line i, rest what the loop finds from the next line on
ScanLine(m, rest, i) ==
    IF m \in {"err", "panic"} THEN [status |-> m, idx |-> {}]
    ELSE [status |-> rest.status,
          idx |-> IF m = "yes" THEN rest.idx \cup {i - 1} ELSE rest.idx]

RECURSIVE ScanLines(_, _, _)
\* the per-line loop for one line pattern, from 1-based line i on:
\* [status, idx] with idx the zero-based indices of the lines it flags
ScanLines(p, lines, i) ==
    IF i > Len(lines) THEN [status |-> "ok", idx |-> {}]
    ELSE ScanLine(matches_line(p, lines[i], i), ScanLines(p, lines, i + 1), i)

\* the lines a block pattern flags: every in-bounds line of every range r
\* of get_block_range
RangeLines(r, lines) ==
    [status |-> r.status,
     idx |-> {k - 1 : k \in {k \in 1..Len(lines) :
                 \E n \in 1..Len(r.ranges) :
                     r.ranges[n][1] <= k /\ k <= r.ranges[n][2]}}]

BlockLines(p, content, lines) == RangeLines(get_block_range(p, content), lines)

\* Step 1 of process_file_content for one pattern
PatternIgnored(p, content, lines) ==
    IF p.pattern_type = BlockStartEnd
    THEN BlockLines(p, content, lines)
    ELSE ScanLines(p, lines, 1)

\* a map that holds what the last pattern with a match flags
InsertIgnored_last(h, t) ==
    IF h.status # "ok" THEN h
    ELSE [status |-> t.status, idx |-> IF t.idx # {} THEN t.idx ELSE h.idx]

\* lines_to_ignore.insert for what one pattern (h) and the patterns after
\* it (t) flag; an Err or panic of h ends the call
InsertIgnored(h, t) ==
    IF h.status # "ok" THEN h
    ELSE [status |-> t.status, idx |-> h.idx \cup t.idx]

RECURSIVE lines_to_ignore(_, _, _)
\* Step 1 for the pattern list: the first Err or panic ends the call
lines_to_ignore(patterns, content, lines) ==
    IF patterns = <<>> THEN [status |-> "ok", idx |-> {}]
    ELSE InsertIgnored(PatternIgnored(patterns[1], content, lines),
                       lines_to_ignore(Tail(patterns), content, lines))

RECURSIVE KeptLines(_, _, _)
\* Step 3: the lines whose index is not ignored, in order
KeptLines(lines, idx, i) ==
    IF i > Len(lines) THEN <<>>
    ELSE IF (i - 1) \in idx THEN KeptLines(lines, idx, i + 1)
    ELSE <<lines[i]>> \o KeptLines(lines, idx, i + 1)

IsBlank(line) == Trim(line) = <<>>

\* no collapse: every kept line goes to the output
CollapseBlank_none(kept, prev_line_was_blank) == kept

RECURSIVE CollapseBlank(_, _)
\* Step 4: at most one blank line in a row
CollapseBlank(kept, prev_line_was_blank) ==
    IF kept = <<>> THEN <<>>
    ELSE IF IsBlank(kept[1])
         THEN (IF prev_line_was_blank THEN <<>> ELSE <<kept[1]>>)
              \o CollapseBlank(Tail(kept), TRUE)
         ELSE <<kept[1]>> \o CollapseBlank(Tail(kept), FALSE)

\* process_file_content: [status, cleaned, ignored_lines]
\* "Ensure the final content ends with a newline if the original did"
new_content(content, joined) ==
    IF EndsWith(content, "\n") /\ joined # <<>>
    THEN Append(joined, "\n") ELSE joined

\* Steps 3 and 4 and the result, ig being what Step 1 found
cleaned_content(content, lines, ig) ==
    IF ig.status # "ok"
    THEN [status |-> ig.status, cleaned |-> content, ignored_lines |-> <<>>]
    ELSE [status |-> "ok",
          cleaned |-> new_content(content,
              JoinLines(CollapseBlank(KeptLines(lines, ig.idx, 1), FALSE))),
          ignored_lines |-> [i \in ig.idx |-> lines[i + 1]]]

\* process_file_content on the lines of the content
process_lines(content, lines, patterns) ==
    cleaned_content(content, lines, lines_to_ignore(patterns, content, lines))

process_file_content(content, patterns) ==
    process_lines(content, Lines(content), patterns)

\* the characters of the modelled texts, in the order that gives their codes
Alphabet ==
    <<"\n", "\r", " ", "A", "S", "C", "X", "B", "E", "=", "'", "\"", "k", "/", "_">>

CharCode(c) ==
    IF \E i \in 1..Len(Alphabet) : Alphabet[i] = c
    THEN CHOOSE i \in 1..Len(Alphabet) : Alphabet[i] = c
    ELSE 0

RECURSIVE HashFold(_, _)
HashFold(s, h) ==
    IF s = <<>> THEN h
    ELSE HashFold(Tail(s), (h * 131 + CharCode(s[1])) % 1000003)

\* calculate_hash: the digest of the text's characters followed by the 0xff
\* terminator that str's Hash writes; a polynomial digest stands for
\* DefaultHasher (SipHash), and the decimal rendering is left out, being
\* one-to-one on the digest
calculate_hash(content) == (HashFold(content, 7) * 131 + 255) % 1000003

-----------------------------------------------------------------------------
(* The backup store (builders/storage.rs).  A store is [backups, temp_dir]: *)
(* the records by key, and whether TempFileStorage's directory exists.      *)

Memory == "Memory"
TempFile == "TempFile"

EmptyMap == [k \in {} |-> None]

Put(m, k, v) == [x \in (DOMAIN m) \cup {k} |-> IF x = k THEN v ELSE m[x]]
Drop(m, k) == [x \in (DOMAIN m) \ {k} |-> m[x]]

BackupSuffix == <<".", "b", "a", "c", "k", "u", "p">>

\* TempFileStorage::get_backup_path: the file name under the backup directory
get_backup_path(file_path) ==
    [i \in 1..Len(file_path) |->
        IF file_path[i] \in {"/", "\\"} THEN "_" ELSE file_path[i]] \o BackupSuffix

\* the key a provider files a path's record under
StoreKey(strategy, file_path) ==
    IF strategy = Memory THEN file_path ELSE get_backup_path(file_path)

\* a store_backup that keeps the record a path already has
store_backup_keeps_first(strategy, st, file_path, backup_data) ==
    [status |-> "Ok",
     st |-> IF StoreKey(strategy, file_path) \in DOMAIN st.backups THEN st
            ELSE [st EXCEPT !.backups =
                     Put(@, StoreKey(strategy, file_path), backup_data)]]

\* StorageProvider::store_backup; fs::write fails when the directory is gone
store_backup(strategy, st, file_path, backup_data) ==
    IF strategy # Memory /\ ~st.temp_dir
    THEN [status |-> "Err", st |-> st]
    ELSE [status |-> "Ok",
          st |-> [st EXCEPT !.backups =
                      Put(@, StoreKey(strategy, file_path), backup_data)]]

\* StorageProvider::restore_backup: the record (or None) and the store
\* without it
restore_backup(strategy, st, file_path) ==
    LET k == StoreKey(strategy, file_path)
    IN IF k \in DOMAIN st.backups
       THEN [data |-> st.backups[k], st |-> [st EXCEPT !.backups = Drop(@, k)]]
       ELSE [data |-> None, st |-> st]

\* str::ends_with and str::strip_suffix with a literal suffix
HasSuffix(s, suffix) ==
    /\ Len(s) >= Len(suffix)
    /\ SubSeq(s, Len(s) - Len(suffix) + 1, Len(s)) = suffix

StripSuffix(s, suffix) ==
    IF HasSuffix(s, suffix) THEN SubSeq(s, 1, Len(s) - Len(suffix)) ELSE s

\* str::replace('_', "/")
UnderscoresToSlashes(s) ==
    [i \in 1..Len(s) |-> IF s[i] = "_" THEN "/" ELSE s[i]]

\* TempFileStorage::restore_file_path_from_backup_name
restore_file_path_from_backup_name(backup_filename) ==
    UnderscoresToSlashes(StripSuffix(backup_filename, BackupSuffix))

\* StorageProvider::get_all_backup_keys; entries is the order in which
\* read_dir (or the HashMap) hands out what the store holds
get_all_backup_keys(strategy, st, entries) ==
    IF strategy = Memory THEN entries
    ELSE IF ~st.temp_dir THEN <<>>
    ELSE [i \in 1..Len(entries) |->
             restore_file_path_from_backup_name(entries[i])]

\* a cleanup that leaves the records where they are
cleanup_nothing(strategy, st) == st

\* StorageProvider::cleanup: MemoryStorage clears its map, TempFileStorage
\* removes its directory
cleanup(strategy, st) ==
    IF strategy = Memory
    THEN [st EXCEPT !.backups = EmptyMap]
    ELSE [backups |-> EmptyMap, temp_dir |-> FALSE]

\* TempFileStorage::new creates the directory when it is missing
new_storage(strategy, st) ==
    IF strategy = Memory
    THEN [st EXCEPT !.backups = EmptyMap]
    ELSE [st EXCEPT !.temp_dir = TRUE]

-----------------------------------------------------------------------------
(* Configuration (core/config.rs).                                         *)

\* SelectiveIgnoreConfig::default
DefaultConfig ==
    [files |-> EmptyMap, auto_cleanup |-> TRUE, backup_strategy |-> TempFile]

\* files.entry(file).or_default().extend(patterns), for every entry of extra
MergeFiles(base, extra) ==
    [k \in (DOMAIN base) \cup (DOMAIN extra) |->
        (IF k \in DOMAIN base THEN base[k] ELSE <<>>)
        \o (IF k \in DOMAIN extra THEN extra[k] ELSE <<>>)]

\* ConfigProvider::load_config: the default, then the global file, then the
\* local file; pattern lists accumulate and the later settings win
load_config(local, global) ==
    LET g == IF global = None THEN DefaultConfig
             ELSE [global EXCEPT !.files = MergeFiles(DefaultConfig.files, @)]
    IN IF local = None THEN g
       ELSE [local EXCEPT !.files = MergeFiles(g.files, @)]

Loaded == load_config(config, global_config)

\* the strategy IgnoreEngine::new selects; GitStash falls back to TempFile
Strategy == IF Loaded.backup_strategy = Memory THEN Memory ELSE TempFile

-----------------------------------------------------------------------------
(* The repository the engine runs in.                                      *)

FileA == <<"a">>
FileB == <<"d", "/", "b">>
AllKey == <<"a", "l", "l">>          \* the wildcard key "all"

Files == {FileA, FileB}
FileOrder == <<FileA, FileB>>       \* git lists paths in byte order
ConfigKeys == Files \cup {AllKey}

\* 'A=1\nB=SECRET\nC=3\n' in short, and a text a user may put in its place
Secret == <<"A", "\n", "S", "\n", "C", "\n">>
Edited == <<"A", "\n", "X", "\n">>
EditTexts == {Edited}

\* fs::read_to_string, index.get_path: NoFile when the path is not there
FileAt(tree, file_path) ==
    IF file_path \in DOMAIN tree THEN tree[file_path] ELSE NoFile

InSeq(x, q) == \E i \in 1..Len(q) : q[i] = x

Store == [backups |-> backups, temp_dir |-> temp_dir]

\* the permutations of a finite set, as sequences: the orders in which a
\* HashMap may hand out its keys
Orders(S) ==
    {q \in [1..Cardinality(S) -> S] :
        \A i, j \in 1..Cardinality(S) : q[i] = q[j] => i = j}

-----------------------------------------------------------------------------
(* The lifecycle engine (core/engine.rs).  A run is                        *)
(* [status, error, store, wt, to_add, log]; a run whose status is not "Ok" *)
(* has returned (or panicked) and skips the steps that remain.             *)

\* IgnoreEngine::get_staged_files: the paths whose index entry differs from
\* HEAD (deletions included); when there are none, every index entry
get_staged_files(hd, idx) ==
    LET changed == {f \in Files : hd[f] # idx[f]}
        staged == IF changed # {} THEN changed
                  ELSE {f \in Files : idx[f] # NoFile}
    IN SelectSeq(FileOrder, LAMBDA f : f \in staged)

Fail(run, why) ==
    [run EXCEPT !.status = IF why = "panic" THEN "Panic" ELSE "Err", !.error = why]

\* a record that keeps the cleaned text in place of the original
BackupData_of_cleaned(original_content, r) ==
    [original_content |-> r.cleaned,
     ignored_lines |-> r.ignored_lines,
     original_file_hash |-> calculate_hash(original_content),
     cleaned_file_hash |-> calculate_hash(r.cleaned)]

\* BackupData { .. } as process_pre_commit fills it in
BackupData(original_content, r) ==
    [original_content |-> original_content,
     ignored_lines |-> r.ignored_lines,
     original_file_hash |-> calculate_hash(original_content),
     cleaned_file_hash |-> calculate_hash(r.cleaned)]

\* the patterns process_pre_commit and verify_staging apply to a staged
\* file: config.files.get(&file_path_str), Some(patterns) or None
HasPatterns(files, file_path) == file_path \in DOMAIN files
PatternsFor(files, file_path) == files[file_path]

\* a clean phase that writes the cleaned text whatever store_backup answers
write_cleaned_unchecked(run, f, r, w) ==
    [run EXCEPT !.wt = [@ EXCEPT ![f] = r.cleaned],
                !.to_add = Append(@, f)]

\* fs::write of the cleaned content and the push on
\* files_to_add_after_processing, w being the answer of store_backup
write_cleaned(run, f, r, w) ==
    IF w.status # "Ok" THEN Fail(run, "Failed to write backup file")
    ELSE [run EXCEPT !.store = w.st,
                     !.wt = [@ EXCEPT ![f] = r.cleaned],
                     !.to_add = Append(@, f)]

\* "if cleaned_content != original_content", r being the answer of
\* process_file_content
backup_and_write(strategy, run, f, original_content, r) ==
    IF r.status # "ok" THEN Fail(run, r.status)
    ELSE IF r.cleaned = original_content THEN run
    ELSE write_cleaned(run, f, r,
             store_backup(strategy, run.store, f, BackupData(original_content, r)))

\* the body of "if let Some(patterns) = config.files.get(..)"
clean_staged_file(strategy, idx, run, f, patterns) ==
    IF idx[f] = NoFile THEN Fail(run, "Failed to get staged file entry")
    ELSE backup_and_write(strategy, run, f, idx[f],
                          process_file_content(idx[f], patterns))

\* println!("Processing file: ..")
Processing(run, f) == [run EXCEPT !.log = @ \cup {<<"processing", f>>}]

\* one iteration of the loop over the staged files in process_pre_commit
pre_commit_step(strategy, files, idx, run, f) ==
    IF ~HasPatterns(files, f) THEN run
    ELSE clean_staged_file(strategy, idx, Processing(run, f), f,
                           PatternsFor(files, f))

RECURSIVE pre_commit_loop(_, _, _, _, _)
pre_commit_loop(strategy, files, idx, staged_files, run) ==
    IF staged_files = <<>> \/ run.status # "Ok" THEN run
    ELSE pre_commit_loop(strategy, files, idx, Tail(staged_files),
                         pre_commit_step(strategy, files, idx, run, staged_files[1]))

\* a clean phase that forgets to stage what it wrote
restage_nothing(idx, run) == idx

\* index.add_path for every file the loop marked, then index.write
restage(idx, run) ==
    IF run.status = "Ok"
    THEN [f \in Files |-> IF InSeq(f, run.to_add) THEN run.wt[f] ELSE idx[f]]
    ELSE idx

\* a restore phase without the integrity gate
hash_unchecked(current_content, backup_data) == TRUE

\* the integrity gate of process_post_commit
hash_matches(current_content, backup_data) ==
    calculate_hash(current_content) = backup_data.cleaned_file_hash

\* the body of "if let Some(backup_data) = ..": run is the run with the
\* record already taken from the store
restore_file(run, f, backup_data) ==
    IF FileAt(run.wt, f) = NoFile THEN Fail(run, "read_to_string failed")
    ELSE IF hash_matches(run.wt[f], backup_data)
         THEN [run EXCEPT !.wt = [@ EXCEPT ![f] = backup_data.original_content],
                          !.log = @ \cup {<<"restored", f>>}]
         ELSE [run EXCEPT !.log = @ \cup {<<"skipped", f>>}]

\* r is the answer of storage.restore_backup(file_path)
restore_taken(run, f, r) ==
    IF r.data = None THEN run
    ELSE restore_file([run EXCEPT !.store = r.st], f, r.data)

\* one iteration of the loop over config.files.keys() in process_post_commit
post_commit_step(strategy, run, f) ==
    restore_taken(run, f, restore_backup(strategy, run.store, f))

RECURSIVE post_commit_loop(_, _, _)
post_commit_loop(strategy, keys, run) ==
    IF keys = <<>> \/ run.status # "Ok" THEN run
    ELSE post_commit_loop(strategy, Tail(keys),
                          post_commit_step(strategy, run, keys[1]))

\* "Cleanup backups if configured", reached when the loop returned no error
auto_cleanup_step(strategy, cfg, run) ==
    IF run.status = "Ok" /\ cfg.auto_cleanup
    THEN [run EXCEPT !.store = cleanup(strategy, @)]
    ELSE run

\* "if !ignored_lines.is_empty() { violations.push(..) }", r being the
\* answer of process_file_content for one pattern
violation(run, f, r) ==
    IF r.status # "ok" THEN Fail(run, r.status)
    ELSE IF DOMAIN r.ignored_lines # {}
         THEN [run EXCEPT !.log = @ \cup {<<"violation", f>>}]
         ELSE run

RECURSIVE verify_patterns(_, _, _, _)
\* the loop over the patterns of one staged file in verify_staging
verify_patterns(content, patterns, f, run) ==
    IF patterns = <<>> \/ run.status # "Ok" THEN run
    ELSE verify_patterns(content, Tail(patterns), f,
             violation(run, f, process_file_content(content, <<patterns[1]>>)))

\* one iteration of the loop over the staged files in verify_staging
verify_step(files, idx, run, f) ==
    IF ~HasPatterns(files, f) THEN run
    ELSE IF idx[f] = NoFile
         THEN Fail(run, "Failed to get staged file entry")
         ELSE verify_patterns(idx[f], PatternsFor(files, f), f, run)

RECURSIVE verify_loop(_, _, _, _)
verify_loop(files, idx, staged_files, run) ==
    IF staged_files = <<>> \/ run.status # "Ok" THEN run
    ELSE verify_loop(files, idx, Tail(staged_files),
                     verify_step(files, idx, run, staged_files[1]))

\* "if !violations.is_empty() { bail!(..) }"
verify_verdict(run) ==
    IF run.status = "Ok" /\ run.log # {}
    THEN Fail(run, "Verification failed - ignored content detected")
    ELSE run

StartRun(st) ==
    [status |-> "Ok", error |-> "", store |-> st, wt |-> wt,
     to_add |-> <<>>, log |-> {}]

\* the engine a command runs on: utils::get_engine builds a new one for
\* every command (fresh), the tests call one engine several times
EngineStore(fresh) == IF fresh THEN new_storage(Strategy, Store) ELSE Store

Snapshot == [wt |-> wt, index |-> index, backups |-> backups]

Finish(name, dry_run, fresh, run) ==
    /\ op' = [name |-> name, dry_run |-> dry_run, fresh |-> fresh]
    /\ res' = [status |-> run.status, error |-> run.error, log |-> run.log]
    /\ pre' = Snapshot
    /\ wt' = run.wt
    /\ backups' = run.store.backups
    /\ temp_dir' = run.store.temp_dir

\* what process_pre_commit leaves behind, run being the run of its loop
pre_commit_effect(dry_run, fresh, run) ==
    /\ Finish("pre_commit", dry_run, fresh, run)
    /\ index' = restage(index, run)
    /\ UNCHANGED <<config, global_config, head, edits, commits>>

\* IgnoreEngine::process_pre_commit, called with the --dry-run flag of the
\* pre-commit command; the engine's function has no such parameter
process_pre_commit(dry_run, fresh) ==
    pre_commit_effect(dry_run, fresh,
        pre_commit_loop(Strategy, Loaded.files, index,
                        get_staged_files(head, index),
                        StartRun(EngineStore(fresh))))

\* IgnoreEngine::process_post_commit
process_post_commit(fresh) ==
    \E keys \in Orders(DOMAIN Loaded.files) :
        LET run == auto_cleanup_step(Strategy, Loaded,
                       post_commit_loop(Strategy, keys,
                                        StartRun(EngineStore(fresh))))
        IN /\ Finish("post_commit", FALSE, fresh, run)
           /\ UNCHANGED <<config, global_config, head, index,
                         edits, commits>>

\* IgnoreEngine::verify_staging
verify_staging(fresh) ==
    LET run == verify_verdict(verify_loop(Loaded.files, index,
                                          get_staged_files(head, index),
                                          StartRun(EngineStore(fresh))))
    IN /\ Finish("verify", FALSE, fresh, run)
       /\ UNCHANGED <<config, global_config, head, index,
                     edits, commits>>

-----------------------------------------------------------------------------
(* Configuration commands (ConfigManager) and what the user and git do.    *)

MaxEdits == 1
MaxCommits == 1

\* IgnorePattern::new for the kind "line-regex"; the id stands for the uuid
RegexPattern(id, specification) ==
    [id |-> id, pattern_type |-> LineRegex, specification |-> specification]

PatternIds == {"id1", "id2"}

\* the configurations the repository starts with: every file with a pattern
\* of its own that matches the secret line; a wildcard pattern that matches
\* it, next to one file with a pattern of its own that matches nothing
ConfigFiles ==
    {Put(Put(EmptyMap, FileA, <<RegexPattern("id1", <<"/", "S", "/">>)>>),
         FileB, <<RegexPattern("id2", <<"/", "S", "/">>)>>),
     Put(Put(EmptyMap, AllKey, <<RegexPattern("id1", <<"/", "S", "/">>)>>),
         FileA, <<RegexPattern("id2", <<"/", "Z", "/">>)>>)}

Other(name) ==
    /\ op' = [name |-> name, dry_run |-> FALSE, fresh |-> FALSE]
    /\ res' = [status |-> "Ok", error |-> "", log |-> {}]
    /\ pre' = [wt |-> wt', index |-> index', backups |-> backups']

\* ConfigManager::remove_pattern: load, drop the pattern with the id, drop
\* the file's entry when its list is empty, save
remove_pattern(file_path, pattern_id) ==
    /\ LET cfg == Loaded
           kept == IF file_path \in DOMAIN cfg.files
                   THEN SelectSeq(cfg.files[file_path], LAMBDA q : q.id # pattern_id)
                   ELSE <<>>
       IN config' = [cfg EXCEPT !.files =
                        IF file_path \notin DOMAIN cfg.files THEN @
                        ELSE IF kept = <<>> THEN Drop(@, file_path)
                        ELSE [@ EXCEPT ![file_path] = kept]]
    /\ UNCHANGED <<global_config, wt, index, head, backups, temp_dir,
                 edits, commits>>
    /\ op' = [name |-> "remove_pattern", dry_run |-> FALSE, fresh |-> FALSE,
              file_path |-> file_path, pattern_id |-> pattern_id]
    /\ res' = [status |-> "Ok", error |-> "", log |-> {}]
    /\ pre' = [wt |-> wt', index |-> index', backups |-> backups']

\* the user rewrites a file of the working tree
UserEdit(f, text) ==
    /\ edits < MaxEdits
    /\ edits' = edits + 1
    /\ wt[f] # text
    /\ wt' = [wt EXCEPT ![f] = text]
    /\ UNCHANGED <<config, global_config, index, head, backups, temp_dir,
                 commits>>
    /\ Other("edit")

\* the user deletes a file of the working tree
UserDelete(f) ==
    /\ edits < MaxEdits
    /\ edits' = edits + 1
    /\ wt[f] # NoFile
    /\ wt' = [wt EXCEPT ![f] = NoFile]
    /\ UNCHANGED <<config, global_config, index, head, backups, temp_dir,
                 commits>>
    /\ Other("delete")

\* git add / git rm --cached: the index entry becomes the working-tree file
GitAdd(f) ==
    /\ index[f] # wt[f]
    /\ index' = [index EXCEPT ![f] = wt[f]]
    /\ UNCHANGED <<config, global_config, wt, head, backups, temp_dir,
                 edits, commits>>
    /\ Other("add")

\* git commit records the index as the new HEAD; it gets here when the
\* pre-commit hook, which runs the pre-commit command, has exited with 0
GitCommit ==
    /\ commits < MaxCommits
    /\ commits' = commits + 1
    /\ op.name = "pre_commit" /\ res.status = "Ok"
    /\ head # index
    /\ head' = index
    /\ UNCHANGED <<config, global_config, wt, index, backups, temp_dir,
                 edits>>
    /\ Other("commit")

-----------------------------------------------------------------------------

Init ==
    /\ \E ac \in BOOLEAN, bs \in {TempFile, Memory}, files \in ConfigFiles :
          /\ config = [DefaultConfig EXCEPT !.auto_cleanup = ac,
                                            !.backup_strategy = bs,
                                            !.files = files]
          /\ temp_dir = (bs = TempFile)
    /\ global_config = None
    /\ wt = [f \in Files |-> Secret]
    /\ index = [f \in Files |-> Secret]
    /\ head = [f \in Files |-> NoFile]
    /\ backups = EmptyMap
    /\ op = [name |-> "init", dry_run |-> FALSE, fresh |-> FALSE]
    /\ res = [status |-> "Ok", error |-> "", log |-> {}]
    /\ pre = [wt |-> wt, index |-> index, backups |-> backups]
    /\ edits = 0
    /\ commits = 0

Next ==
    \/ \E d \in BOOLEAN, fresh \in BOOLEAN : process_pre_commit(d, fresh)
    \/ \E fresh \in BOOLEAN : process_post_commit(fresh)
    \/ \E fresh \in BOOLEAN : verify_staging(fresh)
    \/ \E f \in ConfigKeys, id \in PatternIds : remove_pattern(f, id)
    \/ \E f \in Files, t \in EditTexts : UserEdit(f, t)
    \/ \E f \in Files : UserDelete(f)
    \/ \E f \in Files : GitAdd(f)
    \/ GitCommit

Spec == Init /\ [][Next]_vars

-----------------------------------------------------------------------------
(* Properties of the commit lifecycle.  In an action formula the unprimed   *)
(* variables are the state an operation starts in, the primed ones the     *)
(* state it leaves, and op' names the operation.                           *)

\* has the store a live record for the path, and which
HasRecord(bk, f) == StoreKey(Strategy, f) \in DOMAIN bk
RecordOf(bk, f) == bk[StoreKey(Strategy, f)]

\* the patterns the specification applies to a file: those under the
\* wildcard key "all", then those under the file's own path
Applicable(files, f) ==
    (IF AllKey \in DOMAIN files THEN files[AllKey] ELSE <<>>)
    \o (IF f \in DOMAIN files THEN files[f] ELSE <<>>)

\* what the clean phase computes for a staged file from its own patterns
Transformed(f) == process_file_content(index[f], PatternsFor(Loaded.files, f))

\* the staged files the clean phase changes: a configuration entry of their
\* own, and a transform that changes the staged content
Changes(f) ==
    /\ InSeq(f, get_staged_files(head, index))
    /\ HasPatterns(Loaded.files, f)
    /\ index[f] # NoFile
    /\ Transformed(f).cleaned # index[f]

\* C1: in the restore phase the original content of a record is written to
\* the working tree only if the hash of the file's current content equals
\* the record's cleaned hash; a file whose hash differs is left unchanged.
C1_RestoreOnlyOnHashMatch ==
    [][op'.name = "post_commit" =>
        \A f \in Files :
            wt'[f] # wt[f] =>
                LET bk == EngineStore(op'.fresh).backups
                IN /\ HasRecord(bk, f)
                   /\ calculate_hash(wt[f]) = RecordOf(bk, f).cleaned_file_hash
                   /\ wt'[f] = RecordOf(bk, f).original_content]_vars

\* a restore phase has restored one file and skipped an edited one
C1_Witness ==
    /\ op.name = "post_commit"
    /\ \E f, g \in Files :
          /\ <<"skipped", f>> \in res.log /\ wt[f] = Edited
          /\ <<"restored", g>> \in res.log /\ wt[g] = Secret /\ pre.wt[g] # Secret

\* C2: round trip.  When a successful clean phase is followed by the restore
\* phase, on a store that still holds what the clean phase stored (the
\* on-disk store, or the in-memory store of the same engine), every file
\* whose staged content the transform changed holds that staged content
\* again.
C2_RoundTrip ==
    [][(/\ op.name = "pre_commit" /\ ~op.dry_run /\ res.status = "Ok"
        /\ op'.name = "post_commit"
        /\ (Strategy = TempFile \/ ~op'.fresh))
       => \A f \in Files :
            (/\ InSeq(f, get_staged_files(head, pre.index))
             /\ HasPatterns(Loaded.files, f)
             /\ pre.index[f] # NoFile
             /\ process_file_content(pre.index[f],
                    PatternsFor(Loaded.files, f)).cleaned # pre.index[f])
            => wt'[f] = pre.index[f]]_vars

\* The round trip of C2 where no file with a live record is missing from
\* the working tree: what is left of C2 without the abort that C10 is about.
RoundTripWhenNoFileIsMissing ==
    [][(/\ op.name = "pre_commit" /\ ~op.dry_run /\ res.status = "Ok"
        /\ op'.name = "post_commit"
        /\ (Strategy = TempFile \/ ~op'.fresh)
        /\ \A g \in Files : HasRecord(backups, g) => wt[g] # NoFile)
       => \A f \in Files :
            (/\ InSeq(f, get_staged_files(head, pre.index))
             /\ HasPatterns(Loaded.files, f)
             /\ pre.index[f] # NoFile
             /\ process_file_content(pre.index[f],
                    PatternsFor(Loaded.files, f)).cleaned # pre.index[f])
            => wt'[f] = pre.index[f]]_vars

\* C3: a record leaves the store only when the restore phase has written its
\* original content back or cleanup has discarded the records (or, for the
\* in-memory store, when the engine that held it is gone); a skipped restore
\* leaves the record in the store.
C3_RecordLiveUntilRestoredOrDiscarded ==
    [][\A f \in Files :
          (HasRecord(backups, f) /\ ~HasRecord(backups', f))
          => \/ /\ <<"restored", f>> \in res'.log
                /\ wt'[f] = RecordOf(backups, f).original_content
             \/ /\ op'.name = "post_commit" /\ res'.status = "Ok"
                /\ Loaded.auto_cleanup
             \/ Strategy = Memory /\ op'.fresh]_vars

C5_DryRunMutatesNothing ==
    [][(op'.name = "pre_commit" /\ op'.dry_run) =>
        /\ wt' = wt
        /\ index' = index
        /\ backups' = EngineStore(op'.fresh).backups]_vars

\* C6: verify_staging returns an error exactly when some staged file has an
\* applicable pattern whose ignored-line set on the staged content is not
\* empty, and it changes neither working tree, index nor store.
C6_VerifyErrorIffViolation ==
    [][op'.name = "verify" =>
        /\ (res'.status # "Ok") <=>
              \E f \in Files :
                 /\ InSeq(f, get_staged_files(head, index))
                 /\ index[f] # NoFile
                 /\ \E i \in 1..Len(Applicable(Loaded.files, f)) :
                       DOMAIN process_file_content(index[f],
                           <<Applicable(Loaded.files, f)[i]>>).ignored_lines # {}
        /\ wt' = wt
        /\ index' = index
        /\ backups' = EngineStore(op'.fresh).backups]_vars

\* C7: a successful clean phase cleans every staged file that the union of
\* the wildcard patterns and the file's own patterns changes, and keeps a
\* record for it.
C7_CleanAppliesWildcardUnion ==
    [][(op'.name = "pre_commit" /\ ~op'.dry_run /\ res'.status = "Ok") =>
        \A f \in Files :
            (/\ InSeq(f, get_staged_files(head, index))
             /\ index[f] # NoFile
             /\ process_file_content(index[f],
                    Applicable(Loaded.files, f)).cleaned # index[f])
            => /\ wt'[f] = process_file_content(index[f],
                               Applicable(Loaded.files, f)).cleaned
               /\ HasRecord(backups', f)]_vars

\* C8: when no file with a live record was modified since it was cleaned,
\* the restore phase leaves every file that had a live record with its
\* original content, whether or not its path is a key of the configuration.
C8_RestoreEveryLiveRecord ==
    [][op'.name = "post_commit" =>
        LET bk == EngineStore(op'.fresh).backups
        IN (\A g \in Files : HasRecord(bk, g) =>
                /\ wt[g] # NoFile
                /\ hash_matches(wt[g], RecordOf(bk, g)))
           => \A f \in Files : HasRecord(bk, f) =>
                 wt'[f] = RecordOf(bk, f).original_content]_vars

\* C9: when the restore phase meets a file whose hash differs from its
\* record's cleaned hash, it returns success and has restored every other
\* file whose content matches the cleaned hash of its record.
C9_MismatchNotFatal ==
    [][op'.name = "post_commit" =>
        LET bk == EngineStore(op'.fresh).backups
        IN (\E f \in Files :
                /\ HasRecord(bk, f) /\ wt[f] # NoFile
                /\ ~hash_matches(wt[f], RecordOf(bk, f)))
           => /\ res'.status = "Ok"
              /\ \A g \in Files :
                    (/\ HasRecord(bk, g) /\ wt[g] # NoFile
                     /\ hash_matches(wt[g], RecordOf(bk, g)))
                    => wt'[g] = RecordOf(bk, g).original_content]_vars

\* The restore phase of C9 where every live record belongs to a key of the
\* configuration and no file with a live record is missing: what is left
\* of C9 without the cases that C8 and C10 are about.
MismatchNotFatalAmongConfiguredFiles ==
    [][op'.name = "post_commit" =>
        LET bk == EngineStore(op'.fresh).backups
        IN (/\ \A f \in Files : HasRecord(bk, f) =>
                  f \in DOMAIN Loaded.files /\ wt[f] # NoFile
            /\ \E f \in Files :
                  HasRecord(bk, f) /\ ~hash_matches(wt[f], RecordOf(bk, f)))
           => /\ res'.status = "Ok"
              /\ \A g \in Files :
                    (HasRecord(bk, g) /\ hash_matches(wt[g], RecordOf(bk, g)))
                    => wt'[g] = RecordOf(bk, g).original_content]_vars

\* C10: when every live record belongs to a key of the configuration and a
\* file with a live record is missing from the working tree, the restore
\* phase still restores every other file whose content matches its record.
C10_FileFailureNotFatal ==
    [][op'.name = "post_commit" =>
        LET bk == EngineStore(op'.fresh).backups
        IN (/\ \A f \in Files : HasRecord(bk, f) => f \in DOMAIN Loaded.files
            /\ \E f \in Files : HasRecord(bk, f) /\ wt[f] = NoFile)
           => \A g \in Files :
                 (/\ HasRecord(bk, g) /\ wt[g] # NoFile
                  /\ hash_matches(wt[g], RecordOf(bk, g)))
                 => wt'[g] = RecordOf(bk, g).original_content]_vars

-----------------------------------------------------------------------------
(* The content transformer on its own: process_file_content applied to a   *)
(* content and a pattern list, and applied again to what it returned.      *)

\* the variables the engine's commands work on, which a component on its
\* own leaves alone
Repository ==
    <<config, global_config, wt, index, head, backups, temp_dir, pre,
      edits, commits>>

EmptyRepository ==
    /\ config = DefaultConfig
    /\ global_config = None
    /\ wt = [f \in Files |-> NoFile]
    /\ index = [f \in Files |-> NoFile]
    /\ head = [f \in Files |-> NoFile]
    /\ backups = EmptyMap
    /\ temp_dir = TRUE
    /\ pre = [wt |-> wt, index |-> index, backups |-> backups]
    /\ edits = 0
    /\ commits = 0

MaxLines == 3

\* the lines a content is made of: a secret, two plain lines, an empty line
\* and a line of blanks, the delimiters of a block, and a line that ends in
\* a carriage return
LineTexts ==
    {<<"S">>, <<"A">>, <<>>, <<" ">>, <<"B">>, <<"E">>, <<"S", "\r">>}

RECURSIVE Terminated(_)
\* every line followed by "\n"
Terminated(ls) ==
    IF ls = <<>> THEN <<>> ELSE ls[1] \o <<"\n">> \o Terminated(Tail(ls))

\* the contents: up to MaxLines lines, with and without the final newline
Contents ==
    UNION {{Terminated(ls), JoinLines(ls)} :
             ls \in UNION {[1..n -> LineTexts] : n \in 0..MaxLines}}

\* IgnorePattern::new
IgnorePattern(id, pattern_type, specification) ==
    [id |-> id, pattern_type |-> pattern_type, specification |-> specification]

\* one well-formed pattern of every kind
KindPatterns ==
    {IgnorePattern("id1", LineRegex, <<"/", "S", "/">>),
     IgnorePattern("id2", LineNumber, <<"2">>),
     IgnorePattern("id3", LineRange, <<"1", "-", "2">>),
     IgnorePattern("id4", BlockStartEnd, <<"B", "|", "|", "|", "E">>)}

\* the pattern lists: none, one pattern, two patterns
PatternLists ==
    {<<>>} \cup {<<p>> : p \in KindPatterns}
           \cup {<<p, q>> : p, q \in KindPatterns}

TransformInit ==
    /\ EmptyRepository
    /\ \E content \in Contents, patterns \in PatternLists :
          op = [name |-> "input", content |-> content, patterns |-> patterns]
    /\ res = [status |-> "none"]

\* process_file_content(content, patterns)
Transform ==
    /\ op.name = "input"
    /\ op' = [op EXCEPT !.name = "transform"]
    /\ res' = process_file_content(op.content, op.patterns)
    /\ UNCHANGED Repository

\* process_file_content(cleaned, patterns), cleaned being what the first
\* call returned
TransformAgain ==
    /\ op.name = "transform" /\ res.status = "ok"
    /\ op' = [op EXCEPT !.name = "transform_again"]
    /\ res' = [first |-> res.cleaned,
               again |-> process_file_content(res.cleaned, op.patterns)]
    /\ UNCHANGED Repository

TransformNext == Transform \/ TransformAgain

TransformSpec == TransformInit /\ [][TransformNext]_vars

\* C12: transforming the cleaned output of a transform again with the same
\* pattern list returns that same cleaned output, for pattern lists of
\* every kind.
C12_TransformIdempotent ==
    op.name = "transform_again" =>
        /\ res.again.status = "ok"
        /\ res.again.cleaned = res.first

\* The idempotence of C12 for the lists of LineRegex and BlockStartEnd
\* patterns, whose matches do not depend on where a line stands.
IdempotentWithoutLinePositions ==
    (/\ op.name = "transform_again"
     /\ \A i \in 1..Len(op.patterns) :
           op.patterns[i].pattern_type \in {LineRegex, BlockStartEnd})
    => /\ res.again.status = "ok"
       /\ res.again.cleaned = res.first

-----------------------------------------------------------------------------
(* The backup store on its own: the operations of StorageProvider called   *)
(* in any order on the provider the configuration selects.  Here op is the *)
(* operation that ran last with its path and record, res what it returned, *)
(* pre.backups what the provider held before.                              *)

\* file paths over an alphabet with both separators and the underscore
StorePaths ==
    {<<"a", "/", "b">>, <<"a", "\\", "b">>, <<"a", "_", "b">>, <<"c">>}

\* two records, as the clean phase builds them for two staged contents
StoreRecords ==
    {BackupData(text, process_file_content(text,
         <<IgnorePattern("id1", LineRegex, <<"/", "S", "/">>)>>)) :
       text \in {Secret, <<"S", "\n">>}}

StoreInit ==
    /\ \E bs \in {TempFile, Memory} :
          /\ config = [DefaultConfig EXCEPT !.backup_strategy = bs]
          /\ temp_dir = (bs = TempFile)
    /\ global_config = None
    /\ wt = [f \in Files |-> NoFile]
    /\ index = [f \in Files |-> NoFile]
    /\ head = [f \in Files |-> NoFile]
    /\ backups = EmptyMap
    /\ op = [name |-> "new", path |-> NoFile, data |-> None]
    /\ res = [status |-> "Ok", data |-> None, keys |-> <<>>]
    /\ pre = [wt |-> wt, index |-> index, backups |-> backups]
    /\ edits = 0
    /\ commits = 0

\* the provider after an operation, and what the operation returned
Returned(name, file_path, backup_data, status, st, data, keys) ==
    /\ op' = [name |-> name, path |-> file_path, data |-> backup_data]
    /\ res' = [status |-> status, data |-> data, keys |-> keys]
    /\ backups' = st.backups
    /\ temp_dir' = st.temp_dir
    /\ pre' = Snapshot
    /\ UNCHANGED <<config, global_config, wt, index, head, edits, commits>>

\* w is the answer of store_backup
Stored(file_path, backup_data, w) ==
    Returned("store_backup", file_path, backup_data, w.status, w.st, None, <<>>)

\* StorageProvider::store_backup(file_path, backup_data)
StoreBackup(file_path, backup_data) ==
    Stored(file_path, backup_data,
           store_backup(Strategy, Store, file_path, backup_data))

\* r is the answer of restore_backup
Restored(file_path, r) ==
    Returned("restore_backup", file_path, None, "Ok", r.st, r.data, <<>>)

\* StorageProvider::restore_backup(file_path)
RestoreBackup(file_path) ==
    Restored(file_path, restore_backup(Strategy, Store, file_path))

\* StorageProvider::get_all_backup_keys()
GetAllBackupKeys ==
    \E entries \in Orders(DOMAIN backups) :
        Returned("get_all_backup_keys", NoFile, None, "Ok", Store, None,
                 get_all_backup_keys(Strategy, Store, entries))

\* StorageProvider::cleanup()
Cleanup ==
    Returned("cleanup", NoFile, None, "Ok", cleanup(Strategy, Store), None, <<>>)

\* the provider of the next process: TempFileStorage::new or
\* MemoryStorage::new
NewProvider ==
    Returned("new", NoFile, None, "Ok", new_storage(Strategy, Store), None, <<>>)

StoreNext ==
    \/ \E file_path \in StorePaths, backup_data \in StoreRecords :
          StoreBackup(file_path, backup_data)
    \/ \E file_path \in StorePaths : RestoreBackup(file_path)
    \/ GetAllBackupKeys
    \/ Cleanup
    \/ NewProvider

StoreSpec == StoreInit /\ [][StoreNext]_vars

\* the record restore_backup would return for a path, or None
Holds(st, file_path) == restore_backup(Strategy, st, file_path).data

-----------------------------------------------------------------------------
(* The clean phase step by step: the pre-commit command as the hook runs   *)
(* it, one file-system effect at a time, a process that may die between    *)
(* any two of them, and the post-commit command run afterwards.  Here op   *)
(* is the position of the running command: the staged files it has still   *)
(* to visit, the files it has marked for staging and the cleaned text it   *)
(* is about to write.  pre is the repository as the command found it: the  *)
(* staged files with or without the secret line, each of them in the       *)
(* working tree as staged or missing from it.                              *)

\* StandardValidator::validate_config, the check main runs before a
\* command: every key but "all" is a file that exists (the patterns of the
\* configurations here are well-formed and do not conflict)
validate_config(files, tree) ==
    \A file_path \in DOMAIN files \ {AllKey} : FileAt(tree, file_path) # NoFile

InterruptInit ==
    /\ \E ac \in BOOLEAN, files \in ConfigFiles :
          config = [DefaultConfig EXCEPT !.auto_cleanup = ac, !.files = files]
    /\ global_config = None
    /\ index \in [Files -> {Secret, Edited}]
    /\ \E missing \in SUBSET Files :
          wt = [f \in Files |-> IF f \in missing THEN NoFile ELSE index[f]]
    /\ head = [f \in Files |-> NoFile]
    /\ backups = EmptyMap
    /\ temp_dir = TRUE
    /\ op = [name |-> "idle"]
    /\ res = [status |-> "Ok", error |-> "", log |-> {}]
    /\ pre = [wt |-> wt, index |-> index, backups |-> backups]
    /\ edits = 0
    /\ commits = 0

\* main refuses the command: "Configuration validation failed."
Refused ==
    /\ op.name \in {"idle", "died", "exited"}
    /\ ~validate_config(Loaded.files, wt)
    /\ op' = [name |-> "refused"]
    /\ res' = [status |-> "Err", error |-> "Configuration validation failed.",
               log |-> {}]
    /\ UNCHANGED <<config, global_config, wt, index, head, backups, temp_dir,
                 pre, edits, commits>>

\* the pre-commit command starts: process_pre_commit up to its loop
StartPreCommit ==
    /\ op.name = "idle"
    /\ validate_config(Loaded.files, wt)
    /\ op' = [name |-> "pre_commit", at |-> "loop",
              staged_files |-> get_staged_files(head, index),
              to_add |-> <<>>, cleaned |-> NoFile]
    /\ pre' = Snapshot
    /\ UNCHANGED <<config, global_config, wt, index, head, backups, temp_dir,
                 res, edits, commits>>

\* the command returns: Ok, or the error the ? operator hands up
Exits(status, error) ==
    /\ op' = [name |-> "exited"]
    /\ res' = [status |-> status, error |-> error, log |-> {}]
    /\ UNCHANGED <<config, global_config, wt, head, backups, temp_dir,
                 pre, edits, commits>>

\* the loop goes on to the next staged file
NextStagedFile ==
    /\ op' = [op EXCEPT !.staged_files = Tail(@)]
    /\ UNCHANGED <<config, global_config, wt, index, head, backups, temp_dir,
                 res, pre, edits, commits>>

\* self.storage.store_backup(..)?, w being its answer; fs::write is next
BackupStored(r, w) ==
    IF w.status # "Ok"
    THEN Exits("Err", "Failed to write backup file") /\ UNCHANGED index
    ELSE /\ backups' = w.st.backups
         /\ temp_dir' = w.st.temp_dir
         /\ op' = [op EXCEPT !.at = "write", !.cleaned = r.cleaned]
         /\ UNCHANGED <<config, global_config, wt, index, head, res, pre,
                       edits, commits>>

\* "if cleaned_content != original_content", r being the answer of
\* process_file_content for the staged file f
StoreIfCleaned(f, r) ==
    IF r.status # "ok" THEN Exits("Err", r.status) /\ UNCHANGED index
    ELSE IF r.cleaned = index[f] THEN NextStagedFile
    ELSE BackupStored(r, store_backup(Strategy, Store, f,
                                      BackupData(index[f], r)))

\* one iteration of the loop up to store_backup
VisitStagedFile(f) ==
    IF ~HasPatterns(Loaded.files, f) THEN NextStagedFile
    ELSE IF index[f] = NoFile
         THEN Exits("Err", "Failed to get staged file entry") /\ UNCHANGED index
         ELSE StoreIfCleaned(f, process_file_content(index[f],
                                    PatternsFor(Loaded.files, f)))

StoreStep ==
    /\ op.name = "pre_commit" /\ op.at = "loop" /\ op.staged_files # <<>>
    /\ VisitStagedFile(op.staged_files[1])

\* fs::write(file_path, cleaned_content) opens the file, which creates or
\* truncates it
TruncateStep ==
    /\ op.name = "pre_commit" /\ op.at = "write"
    /\ wt' = [wt EXCEPT ![op.staged_files[1]] = <<>>]
    /\ op' = [op EXCEPT !.at = "write_all"]
    /\ UNCHANGED <<config, global_config, index, head, backups, temp_dir,
                 res, pre, edits, commits>>

\* fs::write writes the cleaned content; then the push on
\* files_to_add_after_processing
WriteStep ==
    /\ op.name = "pre_commit" /\ op.at = "write_all"
    /\ wt' = [wt EXCEPT ![op.staged_files[1]] = op.cleaned]
    /\ op' = [op EXCEPT !.at = "loop", !.cleaned = NoFile,
                        !.staged_files = Tail(@),
                        !.to_add = Append(@, op.staged_files[1])]
    /\ UNCHANGED <<config, global_config, index, head, backups, temp_dir,
                 res, pre, edits, commits>>

\* after the loop: index.add_path for the marked files, index.write, Ok
RestageStep ==
    /\ op.name = "pre_commit" /\ op.at = "loop" /\ op.staged_files = <<>>
    /\ index' = restage(index, [status |-> "Ok", to_add |-> op.to_add, wt |-> wt])
    /\ Exits("Ok", "")

\* the process of the pre-commit command dies where it stands
ProcessDies ==
    /\ op.name = "pre_commit"
    /\ op' = [name |-> "died"]
    /\ UNCHANGED <<config, global_config, wt, index, head, backups, temp_dir,
                 res, pre, edits, commits>>

\* the post-commit command, run by a later process
RunPostCommit ==
    /\ op.name \in {"died", "exited"}
    /\ validate_config(Loaded.files, wt)
    /\ process_post_commit(TRUE)

InterruptNext ==
    \/ Refused
    \/ StartPreCommit
    \/ StoreStep
    \/ TruncateStep
    \/ WriteStep
    \/ RestageStep
    \/ ProcessDies
    \/ RunPostCommit

InterruptSpec == InterruptInit /\ [][InterruptNext]_vars

-----------------------------------------------------------------------------
(* IgnorePattern::validate on its own, applied to a pattern of every kind  *)
(* with a specification from a bounded set of texts.                       *)

MaxSpecLen == 3

\* the texts of up to MaxSpecLen characters over digits, '-' and a letter
SpecTexts ==
    UNION {[1..n -> {"0", "1", "-", "x"}] : n \in 0..MaxSpecLen}

\* block specifications with and without the separator and the delimiters
BlockTexts ==
    {<<"B", "|", "|", "|", "E">>, <<"|", "|", "|", "E">>, <<"B", "|", "|", "|">>,
     <<"B", "|", "|", "E">>, <<"B">>, <<>>, <<"|", "|", "|">>,
     <<"B", "|", "|", "|", "E", "|", "|", "|", "E">>}

\* regex specifications: between slashes, a bare word, an unclosed group
RegexTexts ==
    {<<"/", "S", "/">>, <<"S">>, <<"/", "(", "/">>, <<"/", "/">>, <<>>}

ValidatedPatterns ==
    {IgnorePattern("id1", kind, text) :
        kind \in {LineNumber, LineRange}, text \in SpecTexts}
    \cup {IgnorePattern("id1", BlockStartEnd, text) : text \in BlockTexts}
    \cup {IgnorePattern("id1", LineRegex, text) : text \in RegexTexts}

ValidateInit ==
    /\ EmptyRepository
    /\ \E p \in ValidatedPatterns : op = [name |-> "input", pattern |-> p]
    /\ res = [status |-> "none"]

\* pattern.validate()
Validate ==
    /\ op.name = "input"
    /\ op' = [op EXCEPT !.name = "validate"]
    /\ res' = [status |-> validate(op.pattern)]
    /\ UNCHANGED Repository

ValidateNext == Validate

ValidateSpec == ValidateInit /\ [][ValidateNext]_vars

\* a specification that conforms to its kind as the kinds are specified:
\* a positive integer; two positive integers around one '-'; a start and an
\* end text, neither of them blank, around one "|||"
Conforms(p) ==
    CASE p.pattern_type = LineNumber -> ParseUsize(p.specification) > 0
      [] p.pattern_type = LineRange ->
            /\ Len(Split(p.specification, <<"-">>)) = 2
            /\ ParseUsize(Split(p.specification, <<"-">>)[1]) > 0
            /\ ParseUsize(Split(p.specification, <<"-">>)[2]) > 0
      [] p.pattern_type = BlockStartEnd ->
            /\ Len(Split(p.specification, BlockSeparator)) = 2
            /\ Trim(Split(p.specification, BlockSeparator)[1]) # <<>>
            /\ Trim(Split(p.specification, BlockSeparator)[2]) # <<>>
      [] OTHER -> TRUE

-----------------------------------------------------------------------------
(* The pattern matchers on their own: matches_line on a line and its        *)
(* number, get_block_range on a content, and process_file_content with one *)
(* pattern, for patterns that validate and patterns that do not.  Here op   *)
(* is the call with its arguments and res what it returned.                *)

MaxLineNumber == 21
MaxBlockLines == 6

\* the decimal texts of the line ranges
NumberTexts ==
    {<<"0">>, <<"1">>, <<"3">>, <<"9">>, <<"1", "0">>, <<"2", "0">>}

\* the specifications start-end
RangeTexts == {a \o <<"-">> \o b : a, b \in NumberTexts}

\* the texts of the test test_word_assignment_pattern_matching
ApiKey == <<"a", "p", "i", "_", "k", "e", "y">>
ApiKeySecret ==
    ApiKey \o <<" ", "=", " ", "\"", "s", "e", "c", "r", "e", "t", "\"">>
ApiKeyX == ApiKey \o <<" ", "=", " ", "'", "x", "'">>
NotAnApiKey ==
    <<"n", "o", "t", "_", "a", "n", "_">> \o ApiKey
        \o <<" ", "=", " ", "\"", "y", "\"">>

\* the lines matches_line is called on: assignments of a quoted value, of
\* an empty and of a bare value, the identifier inside a longer word, after
\* a dot and before another character, and lines without the identifier
AssignmentLines ==
    {ApiKeySecret, ApiKeyX, NotAnApiKey,
     <<" ", " ">> \o ApiKeyX \o <<" ">>,
     <<"k", "=", "'", "x", "'">>, <<"k", " ", "=", "\"", "x", "\"">>,
     <<"_", "k", "=", "'", "x", "'">>, <<"x", ".", "k", "=", "'", "x", "'">>,
     <<"k", "=", "'", "'">>, <<"k", "=", "x">>, <<"k", "=", "'", "x", "\"">>,
     <<"k", "x", "=", "'", "x", "'">>, <<"k", " ", "'", "x", "'">>,
     <<"k", "=", " ", " ", "'", "x", " ", "y", "'", ";">>,
     <<"k">>, <<"S">>, <<>>}

\* the identifiers: the one of the test, a short one, one that is no word
Identifiers == {ApiKey, <<"k">>, <<".", "k">>}

\* the patterns matches_line is called with
LinePatterns ==
    {IgnorePattern("id1", LineRange, text) : text \in RangeTexts}
    \cup {IgnorePattern("id1", LineRegex, text) : text \in Identifiers}

\* the lines a content with blocks is made of: a plain line, a start line,
\* an end line, a line with the start and the end text
BlockLineTexts == {<<"A">>, <<"B">>, <<"E">>, <<"B", "E">>}

BlockContents ==
    UNION {{Terminated(ls), JoinLines(ls)} :
             ls \in UNION {[1..n -> BlockLineTexts] : n \in 0..MaxBlockLines}}

\* block patterns that validate: the start and the end text around "|||"
BlockPatterns ==
    {IgnorePattern("id1", BlockStartEnd, <<"B", "|", "|", "|", "E">>),
     IgnorePattern("id1", BlockStartEnd,
                   <<" ", "B", " ", "|", "|", "|", " ", "E">>)}

\* patterns of every kind whose specification validate() refuses
MalformedPatterns ==
    {IgnorePattern("id1", LineRegex, <<"/">>),
     IgnorePattern("id1", LineRegex, <<"/", "(", "/">>),
     IgnorePattern("id1", LineNumber, <<"x">>),
     IgnorePattern("id1", LineNumber, <<>>),
     IgnorePattern("id1", LineRange, <<"1">>),
     IgnorePattern("id1", LineRange, <<"x", "-", "2">>),
     IgnorePattern("id1", LineRange, <<"1", "-", "x">>),
     IgnorePattern("id1", LineRange, <<"1", "-", "2", "-", "3">>),
     IgnorePattern("id1", BlockStartEnd, <<"B">>),
     IgnorePattern("id1", BlockStartEnd, <<"|", "|", "|", "E">>),
     IgnorePattern("id1", BlockStartEnd, <<"B", "|", "|", "|">>),
     IgnorePattern("id1", BlockStartEnd, <<"|", "|", "|">>),
     IgnorePattern("id1", BlockStartEnd,
                   <<"B", "|", "|", "|", "E", "|", "|", "|", "E">>)}

MatcherInit ==
    /\ EmptyRepository
    /\ res = [status |-> "none"]
    /\ \/ \E p \in LinePatterns, line \in AssignmentLines,
             line_number \in 1..MaxLineNumber :
             op = [name |-> "line", pattern |-> p, line |-> line,
                   line_number |-> line_number]
       \/ \E p \in BlockPatterns, content \in BlockContents :
             op = [name |-> "content", pattern |-> p, content |-> content]
       \/ \E p \in MalformedPatterns \cup KindPatterns, content \in Contents :
             op = [name |-> "content", pattern |-> p, content |-> content]

\* pattern.matches_line(line, line_number)
MatchesLine ==
    /\ op.name = "line"
    /\ op' = [op EXCEPT !.name = "matches_line"]
    /\ res' = [status |-> matches_line(op.pattern, op.line, op.line_number)]
    /\ UNCHANGED Repository

\* pattern.get_block_range(content)
GetBlockRange ==
    /\ op.name = "content"
    /\ op' = [op EXCEPT !.name = "get_block_range"]
    /\ res' = get_block_range(op.pattern, op.content)
    /\ UNCHANGED Repository

\* process_file_content(content, &[pattern])
ProcessFileContent ==
    /\ op.name = "content"
    /\ op' = [op EXCEPT !.name = "process_file_content"]
    /\ res' = process_file_content(op.content, <<op.pattern>>)
    /\ UNCHANGED Repository

MatcherNext == MatchesLine \/ GetBlockRange \/ ProcessFileContent

MatcherSpec == MatcherInit /\ [][MatcherNext]_vars

-----------------------------------------------------------------------------
(* The status command as main runs it, in a repository whose user edits    *)
(* and deletes files: the validation of the configuration, then            *)
(* IgnoreEngine::show_status on a new engine.  res.file_statuses is the     *)
(* report: a FileStatus for every configured path.                         *)

\* FileStatus { exists: false, .. } of show_status
MissingFile ==
    [status |-> "ok", exists |-> FALSE, has_ignored_lines |-> FALSE,
     ignored_line_count |-> 0, total_lines |-> 0]

\* the FileStatus of a file that exists, r being the answer of
\* process_file_content for its content
ExistingFile(content, r) ==
    [status |-> r.status, exists |-> TRUE,
     has_ignored_lines |-> DOMAIN r.ignored_lines # {},
     ignored_line_count |-> Cardinality(DOMAIN r.ignored_lines),
     total_lines |-> Len(Lines(content))]

\* one iteration of show_status's loop over config.files
FileStatus(tree, file_path, patterns) ==
    IF FileAt(tree, file_path) = NoFile THEN MissingFile
    ELSE ExistingFile(tree[file_path],
                      process_file_content(tree[file_path], patterns))

\* what show_status returns and leaves behind, file_statuses being the
\* statuses its loop collected and st the storage of the new engine
StatusReported(file_statuses, st) ==
    /\ op' = [name |-> "status", dry_run |-> FALSE, fresh |-> TRUE]
    /\ res' = [status |-> IF \E k \in DOMAIN file_statuses :
                                 file_statuses[k].status # "ok"
                          THEN "Err" ELSE "Ok",
               error |-> "", log |-> {}, file_statuses |-> file_statuses]
    /\ pre' = Snapshot
    /\ backups' = st.backups
    /\ temp_dir' = st.temp_dir
    /\ UNCHANGED <<config, global_config, wt, index, head, edits, commits>>

\* IgnoreEngine::show_status on the engine utils::get_engine builds
show_status ==
    StatusReported([k \in DOMAIN Loaded.files |->
                       FileStatus(wt, k, Loaded.files[k])],
                   new_storage(Strategy, Store))

\* main for the status command: validate_config()?, then show_status()
StatusCommand ==
    IF validate_config(Loaded.files, wt)
    THEN show_status
    ELSE /\ op' = [name |-> "status", dry_run |-> FALSE, fresh |-> TRUE]
         /\ res' = [status |-> "Err",
                    error |-> "Configuration validation failed.", log |-> {}]
         /\ pre' = Snapshot
         /\ UNCHANGED <<config, global_config, wt, index, head, backups,
                       temp_dir, edits, commits>>

\* a repository after git add: one of the configurations, either backup
\* strategy, and for TempFile a record or a backup directory that an
\* earlier command may have left
StatusInit ==
    /\ \E bs \in {TempFile, Memory}, files \in ConfigFiles :
          /\ config = [DefaultConfig EXCEPT !.backup_strategy = bs,
                                            !.files = files]
          /\ backups \in
                {EmptyMap} \cup
                (IF bs = Memory THEN {}
                 ELSE {Put(EmptyMap, StoreKey(TempFile, FileA),
                           BackupData(Secret,
                               process_file_content(Secret,
                                   <<RegexPattern("id1", <<"/", "S", "/">>)>>)))})
          /\ temp_dir \in IF bs = TempFile /\ backups = EmptyMap
                          THEN BOOLEAN ELSE {bs = TempFile}
    /\ global_config = None
    /\ wt \in [Files -> {Secret, Edited}]
    /\ index = wt
    /\ head = [f \in Files |-> NoFile]
    /\ op = [name |-> "init", dry_run |-> FALSE, fresh |-> FALSE]
    /\ res = [status |-> "Ok", error |-> "", log |-> {}]
    /\ pre = [wt |-> wt, index |-> index, backups |-> backups]
    /\ edits = 0
    /\ commits = 0

StatusNext ==
    \/ StatusCommand
    \/ \E f \in Files, t \in EditTexts : UserEdit(f, t)
    \/ \E f \in Files : UserDelete(f)

StatusSpec == StatusInit /\ [][StatusNext]_vars

-----------------------------------------------------------------------------
(* The hook installer on its own: install_git_hooks and uninstall_git_hooks *)
(* on the files of repo_root/.git/hooks, which wt holds here, one entry per *)
(* path; a hook's text is the sequence of its pieces.                       *)

\* the text install_hook and uninstall_hook look for
Marker == <<"Git Selective Ignore">>

PRE_COMMIT_HOOK ==
    <<"#!/bin/sh", "# ", "Git Selective Ignore", " - Pre-commit Hook",
      "git-selective-ignore pre-commit">>
STRICT_PRE_COMMIT_HOOK ==
    <<"#!/bin/sh", "# ", "Git Selective Ignore", " - Strict Pre-commit Hook",
      "git-selective-ignore verify">>
POST_COMMIT_HOOK ==
    <<"#!/bin/sh", "# ", "Git Selective Ignore", " - Post-commit Hook",
      "git-selective-ignore post-commit">>
POST_MERGE_HOOK ==
    <<"#!/bin/sh", "# ", "Git Selective Ignore", " - Post-merge Hook",
      "git-selective-ignore post-commit">>
PRE_PUSH_HOOK ==
    <<"#!/bin/sh", "# ", "Git Selective Ignore", " - Pre-push Hook",
      "git-selective-ignore verify">>

\* the hooks in the order install_git_hooks and uninstall_git_hooks visit
\* them, each with the script install_git_hooks writes for it
HookScripts(strict) ==
    << <<"pre-commit", IF strict THEN STRICT_PRE_COMMIT_HOOK ELSE PRE_COMMIT_HOOK>>,
       <<"post-commit", POST_COMMIT_HOOK>>,
       <<"post-merge", POST_MERGE_HOOK>>,
       <<"pre-push", PRE_PUSH_HOOK>> >>

HookNames == {HookScripts(FALSE)[i][1] : i \in 1..4}

\* hooks_dir.join(hook_name) and hooks_dir.join(format!("{hook_name}.backup"))
HookPath(hook_name) == <<hook_name>>
HookBackupPath(hook_name) == <<hook_name, ".backup">>
HookFiles == {HookPath(h) : h \in HookNames} \cup {HookBackupPath(h) : h \in HookNames}

\* hooks of other tools: two scripts, a script that mentions the marker,
\* and an executable that is not UTF-8 text
ForeignLint == <<"#!/bin/sh", "lint">>
ForeignTest == <<"#!/bin/sh", "test">>
ForeignWrapper == <<"#!/bin/sh", "# after ", "Git Selective Ignore", "lint">>
ForeignBinary == <<"\\x7fELF", "\\xff">>

\* fs::read_to_string: Err on a file that is not valid UTF-8
ReadFails(text) == \E i \in DOMAIN text : text[i] = "\\xff"

\* an install that writes its script over whatever is at the path
install_hook_overwrites(dir, hook_name, hook_content) ==
    [status |-> "Ok",
     dir |-> [dir EXCEPT ![HookPath(hook_name)] = hook_content]]

\* install_hook
install_hook(dir, hook_name, hook_content) ==
    LET hook_path == HookPath(hook_name)
        backup_path == HookBackupPath(hook_name)
    IN IF dir[hook_path] = NoFile
       THEN [status |-> "Ok", dir |-> [dir EXCEPT ![hook_path] = hook_content]]
       ELSE IF ReadFails(dir[hook_path]) THEN [status |-> "Err", dir |-> dir]
       ELSE IF Contains(dir[hook_path], Marker) THEN [status |-> "Ok", dir |-> dir]
       ELSE [status |-> "Ok",
             dir |-> [dir EXCEPT ![backup_path] = dir[hook_path],
                                 ![hook_path] = hook_content]]

\* uninstall_hook
uninstall_hook(dir, hook_name) ==
    LET hook_path == HookPath(hook_name)
        backup_path == HookBackupPath(hook_name)
    IN IF dir[hook_path] = NoFile THEN [status |-> "Ok", dir |-> dir]
       ELSE IF ReadFails(dir[hook_path]) THEN [status |-> "Err", dir |-> dir]
       ELSE IF ~Contains(dir[hook_path], Marker) THEN [status |-> "Ok", dir |-> dir]
       ELSE [status |-> "Ok",
             dir |-> IF dir[backup_path] = NoFile
                     THEN [dir EXCEPT ![hook_path] = NoFile]
                     ELSE [dir EXCEPT ![hook_path] = dir[backup_path],
                                      ![backup_path] = NoFile]]

\* the calls of install_git_hooks one after the other, each followed by ?
RECURSIVE install_hooks(_, _)
install_hooks(r, scripts) ==
    IF scripts = <<>> \/ r.status # "Ok" THEN r
    ELSE install_hooks(install_hook(r.dir, scripts[1][1], scripts[1][2]),
                       Tail(scripts))

RECURSIVE uninstall_hooks(_, _)
uninstall_hooks(r, scripts) ==
    IF scripts = <<>> \/ r.status # "Ok" THEN r
    ELSE uninstall_hooks(uninstall_hook(r.dir, scripts[1][1]), Tail(scripts))

\* what a command on the hooks leaves behind: the files, and in pre the
\* files before it, the files before the command that preceded it and that
\* command's name
HooksDone(name, strict, r) ==
    /\ wt' = r.dir
    /\ op' = [name |-> name, strict |-> strict]
    /\ res' = [status |-> r.status]
    /\ pre' = [wt |-> wt, before |-> pre.wt, after |-> op.name]
    /\ UNCHANGED <<config, global_config, index, head, backups, temp_dir,
                 commits>>

install_git_hooks(strict) ==
    /\ HooksDone("install_git_hooks", strict,
           install_hooks([status |-> "Ok", dir |-> wt], HookScripts(strict)))
    /\ UNCHANGED edits

uninstall_git_hooks ==
    /\ HooksDone("uninstall_git_hooks", FALSE,
           uninstall_hooks([status |-> "Ok", dir |-> wt], HookScripts(FALSE)))
    /\ UNCHANGED edits

\* the user puts a hook of their own at a hook's path, or removes the file
UserHook(hook_name, text) ==
    /\ edits < MaxEdits
    /\ edits' = edits + 1
    /\ wt[HookPath(hook_name)] # text
    /\ HooksDone("hook", FALSE,
           [status |-> "Ok",
            dir |-> [wt EXCEPT ![HookPath(hook_name)] = text]])

\* a repository's hooks before the tool is installed: per hook nothing, a
\* foreign hook, a foreign hook beside a file named <name>.backup, such a
\* file alone, a hook that mentions the marker, or a binary
HooksBefore ==
    {<<NoFile, NoFile>>, <<ForeignLint, NoFile>>, <<ForeignLint, ForeignTest>>,
     <<NoFile, ForeignTest>>, <<ForeignWrapper, NoFile>>,
     <<ForeignBinary, NoFile>>}

HooksInit ==
    /\ config = DefaultConfig
    /\ global_config = None
    /\ \E before \in [HookNames -> HooksBefore] :
          wt = [p \in HookFiles |-> before[p[1]][Len(p)]]
    /\ index = [f \in Files |-> NoFile]
    /\ head = [f \in Files |-> NoFile]
    /\ backups = EmptyMap
    /\ temp_dir = TRUE
    /\ op = [name |-> "init", strict |-> FALSE]
    /\ res = [status |-> "Ok"]
    /\ pre = [wt |-> wt, before |-> wt, after |-> "init"]
    /\ edits = 0
    /\ commits = 0

HooksNext ==
    \/ \E strict \in BOOLEAN : install_git_hooks(strict)
    \/ uninstall_git_hooks
    \/ \E h \in HookNames, text \in {NoFile, ForeignTest, ForeignBinary} :
          UserHook(h, text)

HooksSpec == HooksInit /\ [][HooksNext]_vars

-----------------------------------------------------------------------------
(* The phases of the engine on one staged file, for every staged content   *)
(* and a pattern of every kind: clean, clean again, restore and verify in  *)
(* any order, with and without an edit of the working tree that was not    *)
(* staged.                                                                  *)

\* the lines a staged content is made of
CycleLineTexts == {<<"S">>, <<"A">>, <<>>, <<"B">>, <<"E">>}

CycleContents ==
    UNION {{Terminated(ls), JoinLines(ls)} :
             ls \in UNION {[1..n -> CycleLineTexts] : n \in 0..MaxLines}}

\* one pattern of every kind, and a pattern that matches no line
CyclePatterns ==
    KindPatterns \cup {IgnorePattern("id5", LineRegex, <<"/", "Z", "/">>)}

CycleInit ==
    /\ \E bs \in {TempFile, Memory}, p \in CyclePatterns :
          /\ config = [DefaultConfig EXCEPT !.auto_cleanup = FALSE,
                                            !.backup_strategy = bs,
                                            !.files = Put(EmptyMap, FileA, <<p>>)]
          /\ temp_dir = (bs = TempFile)
    /\ global_config = None
    /\ \E content \in CycleContents :
          /\ index = [f \in Files |-> IF f = FileA THEN content ELSE NoFile]
          /\ wt \in {index, [index EXCEPT ![FileA] = Edited]}
    /\ head = [f \in Files |-> NoFile]
    /\ backups = EmptyMap
    /\ op = [name |-> "init", dry_run |-> FALSE, fresh |-> FALSE]
    /\ res = [status |-> "Ok", error |-> "", log |-> {}]
    /\ pre = [wt |-> wt, index |-> index, backups |-> backups]
    /\ edits = 0
    /\ commits = 0

CycleNext ==
    \/ \E fresh \in BOOLEAN : process_pre_commit(FALSE, fresh)
    \/ \E fresh \in BOOLEAN : process_post_commit(fresh)
    \/ \E fresh \in BOOLEAN : verify_staging(fresh)

CycleSpec == CycleInit /\ [][CycleNext]_vars

-----------------------------------------------------------------------------
(* The configuration commands on their own: add_pattern and remove_pattern *)
(* on a repository with or without a local and a global configuration.     *)
(* Here op is the command that ran last with its arguments.                 *)

\* the match on the kind string in IgnorePattern::new
PatternTypeOf(pattern_type) ==
    CASE pattern_type = "line-regex" -> LineRegex
      [] pattern_type = "line-number" -> LineNumber
      [] pattern_type = "block-start-end" -> BlockStartEnd
      [] pattern_type = "line-range" -> LineRange
      [] OTHER -> "Invalid"

KindNames ==
    {"line-regex", "line-number", "block-start-end", "line-range", "bogus"}

\* specifications a user may give: well-formed for one kind or for none
AddedTexts ==
    {<<"/", "S", "/">>, <<"1">>, <<"1", "-", "2">>,
     <<"B", "|", "|", "|", "E">>, <<"x", "-">>}

\* the global configuration file: a wildcard pattern and settings that
\* differ from the defaults
GlobalFile ==
    [files |-> Put(EmptyMap, AllKey,
                   <<IgnorePattern("g1", LineRegex, <<"/", "G", "/">>)>>),
     auto_cleanup |-> FALSE, backup_strategy |-> Memory]

\* the ids of the patterns of a configuration
UsedIds(files) ==
    UNION {{files[k][i].id : i \in 1..Len(files[k])} : k \in DOMAIN files}

MaxListed == 3

\* how many patterns the lists of a configuration hold
Listed(files) ==
    Len(IF FileA \in DOMAIN files THEN files[FileA] ELSE <<>>)
    + Len(IF FileB \in DOMAIN files THEN files[FileB] ELSE <<>>)
    + Len(IF AllKey \in DOMAIN files THEN files[AllKey] ELSE <<>>)

ConfigInit ==
    /\ config \in {None} \cup
                  {[DefaultConfig EXCEPT !.auto_cleanup = ac] : ac \in BOOLEAN}
    /\ global_config \in {None, GlobalFile}
    /\ wt = [f \in Files |-> NoFile]
    /\ index = [f \in Files |-> NoFile]
    /\ head = [f \in Files |-> NoFile]
    /\ backups = EmptyMap
    /\ temp_dir = TRUE
    /\ op = [name |-> "init"]
    /\ res = [status |-> "Ok", error |-> "", log |-> {}]
    /\ pre = [wt |-> wt, index |-> index, backups |-> backups]
    /\ edits = 0
    /\ commits = 0

\* config.files.entry(file_path).or_insert_with(Vec::new).push(pattern)
push_pattern(cfg, file_path, ignore_pattern) ==
    [cfg EXCEPT !.files =
        Put(@, file_path,
            Append(IF file_path \in DOMAIN @ THEN @[file_path] ELSE <<>>,
                   ignore_pattern))]

\* ConfigManager::add_pattern: load, IgnorePattern::new (an error for an
\* unknown kind), push, save to the local file; id stands for the new uuid
add_pattern(file_path, pattern_type, pattern_spec, id) ==
    /\ id \notin UsedIds(Loaded.files)
    /\ IF PatternTypeOf(pattern_type) = "Invalid"
       THEN /\ config' = config
            /\ op' = [name |-> "add_pattern", file_path |-> file_path,
                      pattern |-> None]
            /\ res' = [status |-> "Err", error |-> "Invalid pattern type",
                       log |-> {}]
       ELSE /\ config' = push_pattern(Loaded, file_path,
                             IgnorePattern(id, PatternTypeOf(pattern_type),
                                           pattern_spec))
            /\ op' = [name |-> "add_pattern", file_path |-> file_path,
                      pattern |-> IgnorePattern(id, PatternTypeOf(pattern_type),
                                                pattern_spec)]
            /\ res' = [status |-> "Ok", error |-> "", log |-> {}]
    /\ UNCHANGED <<global_config, wt, index, head, backups, temp_dir, pre,
                 edits, commits>>

\* the commands run while the loaded lists hold fewer than MaxListed
\* patterns
ConfigNext ==
    \/ \E file_path \in {FileA, AllKey}, pattern_type \in KindNames,
          pattern_spec \in AddedTexts, id \in PatternIds :
          /\ Listed(Loaded.files) < MaxListed
          /\ add_pattern(file_path, pattern_type, pattern_spec, id)
    \/ \E file_path \in ConfigKeys, id \in PatternIds \cup {"g1"} :
          /\ Listed(Loaded.files) < MaxListed
          /\ remove_pattern(file_path, id)

ConfigSpec == ConfigInit /\ [][ConfigNext]_vars

\* the patterns a scope (a configuration file, or None) lists for a path
ScopePatterns(scope, file_path) ==
    IF scope = None THEN {}
    ELSE IF file_path \notin DOMAIN scope.files THEN {}
    ELSE {scope.files[file_path][i] : i \in 1..Len(scope.files[file_path])}

NoDuplicates(q) == \A i, j \in 1..Len(q) : q[i] = q[j] => i = j

\* C13: restore_backup on a store that holds a record for the path returns
\* that record and removes it, and from then on the store holds no record
\* for the path until store_backup is called for that path again, on both
\* backends.
C13_ExactlyOnceConsumption ==
    [][/\ (op'.name = "restore_backup" => Holds(Store', op'.path) = None)
       /\ (/\ op.name = "store_backup" /\ res.status = "Ok"
           /\ op'.name = "restore_backup" /\ op'.path = op.path)
          => res'.data = op.data
       /\ \A file_path \in StorePaths :
             (/\ Holds(Store, file_path) = None
              /\ ~(op'.name = "store_backup" /\ op'.path = file_path))
             => Holds(Store', file_path) = None]_vars

\* The exactly-once consumption of C13 where no other path shares the
\* path's record file: what is left of C13 without the collisions that
\* C16 is about.
ExactlyOncePerRecordFile ==
    [][/\ (op'.name = "restore_backup" => Holds(Store', op'.path) = None)
       /\ (/\ op.name = "store_backup" /\ res.status = "Ok"
           /\ op'.name = "restore_backup" /\ op'.path = op.path)
          => res'.data = op.data
       /\ \A file_path \in StorePaths :
             (/\ Holds(Store, file_path) = None
              /\ ~(/\ op'.name = "store_backup"
                   /\ StoreKey(Strategy, op'.path) = StoreKey(Strategy, file_path)))
             => Holds(Store', file_path) = None]_vars

\* C14: the store holds at most one record per path: a store_backup for a
\* path leaves exactly one record for it, the one just stored (restoring
\* returns it and a second restore returns None), and get_all_backup_keys
\* never lists a path twice.
C14_OneRecordPerPath ==
    [][/\ (op'.name = "store_backup" /\ res'.status = "Ok")
          => /\ Holds(Store', op'.path) = op'.data
             /\ Holds(restore_backup(Strategy, Store', op'.path).st,
                      op'.path) = None
       /\ \A entries \in Orders(DOMAIN backups') :
             NoDuplicates(get_all_backup_keys(Strategy, Store', entries))]_vars

\* store_backup has replaced the record a path had by another one
C14_Witness ==
    /\ op.name = "store_backup" /\ res.status = "Ok"
    /\ StoreKey(Strategy, op.path) \in DOMAIN pre.backups
    /\ pre.backups[StoreKey(Strategy, op.path)] # op.data
    /\ Holds(Store, op.path) = op.data
    /\ Cardinality(DOMAIN backups) > 1

\* C15: on the on-disk backend get_all_backup_keys returns the paths that
\* were stored and neither restored nor cleaned up; the path just stored is
\* one of them.
C15_ListKeysReturnsStoredPaths ==
    [][(Strategy = TempFile /\ op'.name = "store_backup" /\ res'.status = "Ok")
       => \A entries \in Orders(DOMAIN backups') :
             InSeq(op'.path, get_all_backup_keys(Strategy, Store', entries))]_vars

\* C16: on the on-disk backend store_backup and restore_backup for one path
\* leave the record of every other path as it was.
C16_OtherPathsUntouched ==
    [][(Strategy = TempFile /\ op'.name \in {"store_backup", "restore_backup"})
       => \A file_path \in StorePaths \ {op'.path} :
             Holds(Store', file_path) = Holds(Store, file_path)]_vars

\* The independence of C16 between paths that get_backup_path gives
\* different record files.
OtherRecordFilesUntouched ==
    [][(Strategy = TempFile /\ op'.name \in {"store_backup", "restore_backup"})
       => \A file_path \in StorePaths :
             get_backup_path(file_path) # get_backup_path(op'.path)
             => Holds(Store', file_path) = Holds(Store, file_path)]_vars

C18_LoadConfigMerges ==
    /\ \A file_path \in ConfigKeys :
          /\ ScopePatterns(Loaded, file_path)
                = ScopePatterns(global_config, file_path)
                  \cup ScopePatterns(config, file_path)
          /\ file_path \in DOMAIN Loaded.files
                => NoDuplicates(Loaded.files[file_path])
    /\ config # None
          => /\ Loaded.auto_cleanup = config.auto_cleanup
             /\ Loaded.backup_strategy = config.backup_strategy
    /\ (config = None /\ global_config # None)
          => /\ Loaded.auto_cleanup = global_config.auto_cleanup
             /\ Loaded.backup_strategy = global_config.backup_strategy

\* What load_config does with the pattern lists: for every path the global
\* list followed by the local list, whatever the two have in common.
LoadConfigConcatenates ==
    \A file_path \in DOMAIN Loaded.files :
        Loaded.files[file_path]
          = (IF global_config # None /\ file_path \in DOMAIN global_config.files
             THEN global_config.files[file_path] ELSE <<>>)
            \o (IF config # None /\ file_path \in DOMAIN config.files
                THEN config.files[file_path] ELSE <<>>)

\* C19: add_pattern with a specification that fails validate returns an
\* error and leaves the persisted configuration unchanged.
C19_MalformedPatternRejected ==
    [][(/\ op'.name = "add_pattern"
        /\ op'.pattern # None
        /\ validate(op'.pattern) # "Ok")
       => /\ res'.status = "Err"
          /\ config' = config]_vars

\* C20: validate returns an error for every LineNumber, LineRange and
\* BlockStartEnd specification that does not conform to its kind, and
\* success for every one that does.
C20_ValidateRejectsNonConforming ==
    (/\ op.name = "validate"
     /\ op.pattern.pattern_type \in {LineNumber, LineRange, BlockStartEnd})
    => (res.status = "Ok" <=> Conforms(op.pattern))

\* What validate decides: success exactly for the specifications whose
\* numbers parse as unsigned integers, zero included, and for the block
\* specifications that conform.
ValidateAcceptsZero ==
    (/\ op.name = "validate"
     /\ op.pattern.pattern_type \in {LineNumber, LineRange, BlockStartEnd})
    => /\ res.status \in {"Ok", "Err"}
       /\ Conforms(op.pattern) => res.status = "Ok"
       /\ (res.status = "Ok" /\ ~Conforms(op.pattern))
          => \E i \in 1..Len(Split(op.pattern.specification, <<"-">>)) :
                ParseUsize(Split(op.pattern.specification, <<"-">>)[i]) = 0

\* C11: cleanup discards every record; when auto_cleanup is enabled, a
\* restore phase that completes leaves a store in which get_all_backup_keys
\* lists nothing and restore_backup returns None for every path.
C11_CleanupDiscardsEveryRecord ==
    [][(op'.name = "post_commit" /\ res'.status = "Ok" /\ Loaded.auto_cleanup)
       => /\ \A entries \in Orders(DOMAIN backups') :
                get_all_backup_keys(Strategy, Store', entries) = <<>>
          /\ \A f \in ConfigKeys :
                restore_backup(Strategy, Store', f).data = None]_vars

\* a restore phase with auto_cleanup has completed on a store that held a
\* record the loop did not visit, and the store is empty
C11_Witness ==
    /\ op.name = "post_commit" /\ res.status = "Ok" /\ Loaded.auto_cleanup
    /\ (Strategy = TempFile \/ ~op.fresh)
    /\ \E f \in Files :
          /\ HasRecord(pre.backups, f)
          /\ <<"restored", f>> \notin res.log /\ <<"skipped", f>> \notin res.log
    /\ backups = EmptyMap

\* C21: a pattern whose specification validate() refuses never causes a
\* line to be ignored: process_file_content with that pattern returns an
\* error or ignores no line, and does not panic.
C21_InvalidPatternIgnoresNothing ==
    (op.name = "process_file_content" /\ validate(op.pattern) # "Ok")
    => \/ res.status = "err"
       \/ res.status = "ok" /\ DOMAIN res.ignored_lines = {}

\* every pattern of the lists but the one with the id is still listed for
\* its path after the command, unchanged
OthersStillListed(before, after, pattern_id) ==
    \A k \in DOMAIN before : \A i \in 1..Len(before[k]) :
        before[k][i].id # pattern_id =>
            /\ k \in DOMAIN after
            /\ \E j \in 1..Len(after[k]) : after[k][j] = before[k][i]

\* C22: after remove_pattern(file, id) has succeeded the loaded
\* configuration holds no pattern with that id, every other pattern is still
\* there with its id and specification, and no path is left with an empty
\* pattern list.
C22_RemovePatternRemovesById ==
    [][(op'.name = "remove_pattern" /\ res'.status = "Ok") =>
          /\ op'.pattern_id \notin UsedIds(Loaded'.files)
          /\ OthersStillListed(Loaded.files, Loaded'.files, op'.pattern_id)
          /\ \A k \in DOMAIN Loaded'.files : Loaded'.files[k] # <<>>]_vars

\* What remove_pattern does for C22: the list the loaded configuration has
\* for the named path holds no pattern with the id, whatever the other
\* lists and the global configuration hold; the other patterns stay and no
\* list of the saved file is empty.
RemovePatternFromLocalList ==
    [][(op'.name = "remove_pattern" /\ res'.status = "Ok") =>
          /\ op'.file_path \in DOMAIN config'.files =>
                \A i \in 1..Len(config'.files[op'.file_path]) :
                    config'.files[op'.file_path][i].id # op'.pattern_id
          /\ OthersStillListed(Loaded.files, Loaded'.files, op'.pattern_id)
          /\ \A k \in DOMAIN config'.files : config'.files[k] # <<>>]_vars

\* C23: the status command changes neither the working tree, the index,
\* the configuration nor the backup records, it succeeds for every
\* configuration, and it reports a configured file that is not in the
\* working tree as missing, with no lines.
C23_StatusSucceedsAndMutatesNothing ==
    [][op'.name = "status" =>
          /\ wt' = wt /\ index' = index /\ config' = config
          /\ global_config' = global_config /\ backups' = backups
          /\ res'.status = "Ok"
          /\ \A k \in DOMAIN Loaded.files :
                FileAt(wt, k) = NoFile =>
                    /\ ~res'.file_statuses[k].exists
                    /\ res'.file_statuses[k].total_lines = 0
                    /\ res'.file_statuses[k].ignored_line_count = 0]_vars

\* What the status command does for C23: it changes nothing, and it
\* succeeds exactly when every configured file is in the working tree,
\* reporting for each the number of its lines.
StatusFailsOnMissingFile ==
    [][op'.name = "status" =>
          /\ wt' = wt /\ index' = index /\ config' = config
          /\ global_config' = global_config /\ backups' = backups
          /\ res'.status = "Ok" <=>
                \A k \in DOMAIN Loaded.files \ {AllKey} : wt[k] # NoFile
          /\ res'.status = "Ok" =>
                \A k \in DOMAIN Loaded.files \ {AllKey} :
                    /\ res'.file_statuses[k].exists
                    /\ res'.file_statuses[k].total_lines = Len(Lines(wt[k]))]_vars

\* the numbers the decimal texts of NumberTexts stand for
NumberValue ==
    (<<"0">> :> 0) @@ (<<"1">> :> 1) @@ (<<"3">> :> 3) @@ (<<"9">> :> 9)
    @@ (<<"1", "0">> :> 10) @@ (<<"2", "0">> :> 20)

\* C24: a LineRange pattern start-end matches a line exactly when its
\* 1-based number n has start <= n <= end, whatever the text of the line;
\* 10-20 matches the lines 10, 15 and 20 and neither 9 nor 21.
C24_LineRangeInclusive ==
    (op.name = "matches_line" /\ op.pattern.pattern_type = LineRange) =>
        \A a, b \in NumberTexts :
            op.pattern.specification = a \o <<"-">> \o b =>
                res.status = IF /\ NumberValue[a] <= op.line_number
                                /\ op.line_number <= NumberValue[b]
                             THEN "yes" ELSE "no"

C24_Witness ==
    /\ op.name = "matches_line"
    /\ op.pattern = IgnorePattern("id1", LineRange, <<"1", "0", "-", "2", "0">>)
    /\ op.line_number = 20
    /\ op.line = ApiKeyX
    /\ res.status = "yes"

\* the content a, BEGIN, b, c, END, d of the specification's example, with
\* B for BEGIN and E for END
BlockExample == <<"A", "\n", "B", "\n", "A", "\n", "A", "\n", "E", "\n", "A">>

\* line k stands inside one of the ranges
InRanges(ranges, k) ==
    \E n \in 1..Len(ranges) : ranges[n][1] <= k /\ k <= ranges[n][2]

\* ranges are the blocks of lines for the start text B and the end text E:
\* each runs from a line with the start text to the first later line with
\* the end text, they ascend without overlap, and a line with the start
\* text outside of them has no line with the end text after it
BlocksOf(lines, ranges) ==
    /\ \A n \in 1..Len(ranges) :
          /\ ranges[n][1] \in 1..Len(lines) /\ ranges[n][2] \in 1..Len(lines)
          /\ ranges[n][1] < ranges[n][2]
          /\ Contains(lines[ranges[n][1]], <<"B">>)
          /\ Contains(lines[ranges[n][2]], <<"E">>)
          /\ \A k \in (ranges[n][1] + 1)..(ranges[n][2] - 1) :
                ~Contains(lines[k], <<"E">>)
    /\ \A n \in 1..(Len(ranges) - 1) : ranges[n][2] < ranges[n + 1][1]
    /\ \A k \in 1..Len(lines) :
          (Contains(lines[k], <<"B">>) /\ ~InRanges(ranges, k)) =>
              \A j \in (k + 1)..Len(lines) : ~Contains(lines[j], <<"E">>)

\* C25: get_block_range scans from the top and returns, for each line with
\* the start text that it reaches, the range up to the first later line with
\* the end text, going on after that line: the ranges are disjoint and
\* ascending and no start text inside a block opens a block.  The example
\* a, BEGIN, b, c, END, d has the one range (2, 5) and is cleaned to a, d.
C25_BlockRanges ==
    /\ (op.name = "get_block_range" /\ op.pattern \in BlockPatterns) =>
          /\ res.status = "ok"
          /\ BlocksOf(Lines(op.content), res.ranges)
          /\ op.content = BlockExample => res.ranges = <<<<2, 5>>>>
    /\ (/\ op.name = "process_file_content" /\ op.pattern \in BlockPatterns
        /\ op.content = BlockExample) =>
          /\ res.status = "ok"
          /\ res.cleaned = <<"A", "\n", "A">>

C25_Witness ==
    /\ op.name = "get_block_range" /\ op.pattern \in BlockPatterns
    /\ op.content = <<"B", "\n", "B", "E", "\n", "E", "\n", "B", "\n", "E", "\n">>
    /\ res.ranges = <<<<1, 2>>, <<4, 5>>>>

\* a word character stands at position i of the line
WordAt(line, i) == i \in 1..Len(line) /\ line[i] \in WordChars

\* the identifier stands in the line at a word boundary, followed by '='
\* (at position e) and a value between two quotes of one kind (at q and c)
\* with at least one character between them, nothing but blanks in between
AssignsQuotedValue(ident, line) ==
    \E i, e, q, c \in 1..Len(line) :
        /\ i + Len(ident) <= e /\ e < q /\ q + 1 < c
        /\ SubSeq(line, i, i + Len(ident) - 1) = ident
        /\ WordAt(line, i - 1) # WordAt(line, i)
        /\ \A k \in (i + Len(ident))..(e - 1) : line[k] \in WhiteSpace
        /\ line[e] = "="
        /\ \A k \in (e + 1)..(q - 1) : line[k] \in WhiteSpace
        /\ line[q] \in {"\"", "'"}
        /\ line[c] = line[q]
        /\ \A k \in (q + 1)..(c - 1) : line[k] # line[q]

MatchedBy(p, content) ==
    {k \in 0..(Len(Lines(content)) - 1) :
        \/ matches_line(p, Lines(content)[k + 1], k + 1) = "yes"
        \/ InRanges(get_block_range(p, content).ranges, k + 1)}

\* the lines of a cleaned text: what stands between its newlines
OutputLines(cleaned) ==
    Split(IF EndsWith(cleaned, "\n")
          THEN SubSeq(cleaned, 1, Len(cleaned) - 1) ELSE cleaned, <<"\n">>)

\* the lines with something other than blanks in them, in order
NonBlank(ls) == SelectSeq(ls, LAMBDA l : \E i \in 1..Len(l) : l[i] \notin WhiteSpace)

\* the lines whose zero-based index is not in idx, in order
LinesNotIn(ls, idx) ==
    LET F[i \in 0..Len(ls)] ==
            IF i = 0 THEN <<>>
            ELSE IF (i - 1) \in idx THEN F[i - 1] ELSE Append(F[i - 1], ls[i])
    IN F[Len(ls)]

Reversed(q) == [i \in 1..Len(q) |-> q[Len(q) + 1 - i]]

\* C27: the ignored-line map has as keys exactly the zero-based indices of
\* the lines that some pattern of the list matches, each once, with the
\* original text of the line as value; it does not depend on the order of
\* the patterns, and the other lines are kept in their original order.
C27_IgnoredLinesAreTheUnion ==
    op.name = "transform" =>
        /\ res.status = "ok"
        /\ DOMAIN res.ignored_lines =
              UNION {MatchedBy(op.patterns[n], op.content) :
                        n \in 1..Len(op.patterns)}
        /\ \A k \in DOMAIN res.ignored_lines :
              res.ignored_lines[k] = Lines(op.content)[k + 1]
        /\ process_file_content(op.content, Reversed(op.patterns)) = res
        /\ NonBlank(OutputLines(res.cleaned)) =
              NonBlank(LinesNotIn(Lines(op.content), DOMAIN res.ignored_lines))

C27_Witness ==
    /\ op.name = "transform"
    /\ op.content = <<"A", "\n", "S", "\n", "B", "\n">>
    /\ op.patterns = <<IgnorePattern("id2", LineNumber, <<"2">>),
                       IgnorePattern("id3", LineRange, <<"1", "-", "2">>)>>
    /\ DOMAIN res.ignored_lines = {0, 1}
    /\ res.cleaned = <<"B", "\n">>

\* the lines of ls that are not blank, or blank and the first of their run
FirstOfRuns(ls) ==
    LET F[i \in 0..Len(ls)] ==
            IF i = 0 THEN <<>>
            ELSE IF /\ NonBlank(<<ls[i]>>) = <<>>
                    /\ i > 1
                    /\ NonBlank(<<ls[i - 1]>>) = <<>>
                 THEN F[i - 1]
                 ELSE Append(F[i - 1], ls[i])
    IN F[Len(ls)]

\* the text is the lines joined by newlines, with or without a final one
IsTextOf(cleaned, ls) ==
    cleaned \in {JoinLines(ls), JoinLines(ls) \o <<"\n">>}

\* C28: the cleaned output never has two whitespace-only lines in a row,
\* every run of blank kept lines being reduced to its first line, and its
\* non-blank lines are the non-blank kept lines, unaltered and in order.
C28_BlankRunsCollapsed ==
    (op.name = "transform" /\ res.status = "ok") =>
        /\ \A i \in 1..(Len(OutputLines(res.cleaned)) - 1) :
              NonBlank(SubSeq(OutputLines(res.cleaned), i, i + 1)) # <<>>
        /\ IsTextOf(res.cleaned,
               FirstOfRuns(LinesNotIn(Lines(op.content),
                                      DOMAIN res.ignored_lines)))
        /\ NonBlank(OutputLines(res.cleaned)) =
              NonBlank(LinesNotIn(Lines(op.content), DOMAIN res.ignored_lines))

C28_Witness ==
    /\ op.name = "transform"
    /\ op.content = <<" ", "\n", "S", "\n", "\n">>
    /\ op.patterns = <<IgnorePattern("id1", LineRegex, <<"/", "S", "/">>)>>
    /\ res.cleaned = <<" ", "\n">>

\* C29: the cleaned output ends with a newline exactly when the input
\* ended with a newline and the joined kept lines are not empty; an empty
\* input gives an empty output and an empty ignored-line map.
C29_TrailingNewlinePreserved ==
    (op.name = "transform" /\ res.status = "ok") =>
        /\ EndsWith(res.cleaned, "\n") <=>
              /\ EndsWith(op.content, "\n")
              /\ JoinLines(FirstOfRuns(LinesNotIn(Lines(op.content),
                                DOMAIN res.ignored_lines))) # <<>>
        /\ op.content = <<>> =>
              /\ res.cleaned = <<>>
              /\ DOMAIN res.ignored_lines = {}

\* What the transformer does for C29: the cleaned output is the joined kept
\* lines, followed by one newline exactly when the input ended with a
\* newline and the joined lines are not empty.  The joined lines themselves
\* end with a newline when the last kept line is empty.
NewlineAppendedToJoinedLines ==
    (op.name = "transform" /\ res.status = "ok") =>
        /\ res.cleaned =
              JoinLines(FirstOfRuns(LinesNotIn(Lines(op.content),
                            DOMAIN res.ignored_lines)))
              \o (IF /\ EndsWith(op.content, "\n")
                     /\ JoinLines(FirstOfRuns(LinesNotIn(Lines(op.content),
                                      DOMAIN res.ignored_lines))) # <<>>
                  THEN <<"\n">> ELSE <<>>)
        /\ op.content = <<>> =>
              /\ res.cleaned = <<>>
              /\ DOMAIN res.ignored_lines = {}

\* line k has the start text B and no later line has the end text E
UnterminatedStart(content, k) ==
    /\ Contains(Lines(content)[k], <<"B">>)
    /\ \A j \in (k + 1)..Len(Lines(content)) :
          ~Contains(Lines(content)[j], <<"E">>)

\* the output ends with the lines of the content from line from on
KeptFrom(lines, out, from) ==
    /\ Len(out) >= Len(lines) - from + 1
    /\ SubSeq(out, Len(out) - (Len(lines) - from), Len(out))
          = SubSeq(lines, from, Len(lines))

HeldAfter(f) == Holds([backups |-> backups', temp_dir |-> temp_dir'], f)

\* C31: the clean phase never applies the transform to a file without a
\* stored backup. A file whose working-tree content or index entry the
\* clean phase changed has, when the phase returns, a Backup Record whose
\* original is the content that was staged for it; and when the phase
\* returns an error (the staged entry could not be read, or the record
\* could not be stored) no index entry has changed, and a file without such
\* a record, the failing file among them, has its working-tree content
\* unchanged.
C31_NoTransformWithoutBackup ==
    [][op'.name = "pre_commit" =>
          /\ \A f \in Files :
                (wt'[f] # wt[f] \/ index'[f] # index[f]) =>
                    /\ HeldAfter(f) # None
                    /\ HeldAfter(f).original_content = index[f]
          /\ res'.status = "Err" => index' = index
          /\ res'.error = "Failed to get staged file entry" =>
                \E f \in Files : /\ index[f] = NoFile
                                 /\ wt'[f] = wt[f]
                                 /\ index'[f] = NoFile
          /\ res'.error = "Failed to write backup file" =>
                /\ backups' = backups
                /\ wt' = wt]_vars

\* the store could not write the record of a staged file that has a secret
C31_Witness ==
    /\ op.name = "pre_commit"
    /\ res.status = "Err" /\ res.error = "Failed to write backup file"
    /\ \E f \in Files : /\ HasPatterns(Loaded.files, f)
                        /\ pre.index[f] = Secret
                        /\ wt[f] = pre.wt[f] /\ index[f] = Secret
                        /\ Holds(Store, f) = None

\* a hook of another tool: a file that does not carry the marker
Foreign(text) == text # NoFile /\ ~Contains(text, Marker)

\* C32: installing and then uninstalling the hooks restores every foreign
\* hook that was there before. An install that returns Ok has moved every
\* hook file that did not carry the marker to <name>.backup and put a script
\* with the marker at its path (an install that stopped with an error at a
\* hook it could not read has moved it or left it and its backup path as
\* they were); a hook that carried the marker is neither overwritten nor
\* backed up by an install; and after the uninstall that follows an install
\* every hook that was foreign before the install is at its path with its
\* content.
C32_InstallUninstallRestoresForeignHooks ==
    /\ op.name = "install_git_hooks" =>
          \A h \in HookNames :
              LET was == pre.wt[HookPath(h)]
                  moved == /\ wt[HookBackupPath(h)] = was
                           /\ wt[HookPath(h)] # was
                           /\ Contains(wt[HookPath(h)], Marker)
                  left == /\ wt[HookPath(h)] = was
                          /\ wt[HookBackupPath(h)] = pre.wt[HookBackupPath(h)]
              IN /\ (Foreign(was) /\ res.status = "Ok") => moved
                 /\ Foreign(was) => moved \/ left
                 /\ (was # NoFile /\ Contains(was, Marker)) => left
    /\ (op.name = "uninstall_git_hooks" /\ pre.after = "install_git_hooks") =>
          \A h \in HookNames :
              Foreign(pre.before[HookPath(h)]) =>
                  wt[HookPath(h)] = pre.before[HookPath(h)]

\* a foreign pre-commit hook went to pre-commit.backup on install and is back
\* after the uninstall, and the installed post-commit hook of a repeated
\* install was left alone
C32_Witness ==
    /\ op.name = "uninstall_git_hooks" /\ pre.after = "install_git_hooks"
    /\ res.status = "Ok"
    /\ pre.before[HookPath("pre-commit")] = ForeignLint
    /\ pre.wt[HookBackupPath("pre-commit")] = ForeignLint
    /\ pre.wt[HookPath("pre-commit")] = PRE_COMMIT_HOOK
    /\ wt[HookPath("pre-commit")] = ForeignLint
    /\ wt[HookBackupPath("pre-commit")] = NoFile

\* what process_file_content returns for the staged content of a file under
\* the patterns configured for it
StagedTransform(f) ==
    process_file_content(index[f], PatternsFor(Loaded.files, f))

\* the clean phase runs on a staged file whose patterns match none of its lines
NothingMatches(f) ==
    /\ index[f] # NoFile
    /\ HasPatterns(Loaded.files, f)
    /\ StagedTransform(f).status = "ok"
    /\ DOMAIN StagedTransform(f).ignored_lines = {}

\* C33: when no pattern of a file matches any line of its staged content,
\* the clean phase leaves the file untouched: the cleaned text is the staged
\* content, no Backup Record is stored, the working-tree file is not written
\* and the file is not re-staged, whatever the content.
C33_NoMatchLeavesFileUntouched ==
    [][(op'.name = "pre_commit" /\ NothingMatches(FileA)) =>
          /\ StagedTransform(FileA).cleaned = index[FileA]
          /\ HeldAfter(FileA) \in {None, Holds(Store, FileA)}
          /\ wt'[FileA] = wt[FileA]
          /\ index'[FileA] = index[FileA]]_vars

\* What the clean phase does for C33: a file is left untouched exactly when
\* the cleaned text equals its staged content; text and content differ when
\* a line was ignored, and also when nothing was ignored and the content
\* has a run of blank lines, a line that ends in a carriage return, or is
\* one empty line.
UntouchedWhenCleanedIsStaged ==
    [][(op'.name = "pre_commit" /\ index[FileA] # NoFile
        /\ HasPatterns(Loaded.files, FileA)
        /\ StagedTransform(FileA).status = "ok"
        /\ StagedTransform(FileA).cleaned = index[FileA]) =>
          /\ HeldAfter(FileA) \in {None, Holds(Store, FileA)}
          /\ wt'[FileA] = wt[FileA]
          /\ index'[FileA] = index[FileA]]_vars

\* the record that was live for a file before the last operation
HeldBefore(f) ==
    IF StoreKey(Strategy, f) \in DOMAIN pre.backups
    THEN pre.backups[StoreKey(Strategy, f)] ELSE None

\* the last operation was a clean phase that ran while a record of an
\* earlier clean phase was live for the file, on the content that clean
\* phase had left staged, and a restore phase follows it at once
RestoreAfterSecondClean(f) ==
    /\ op.name = "pre_commit" /\ res.status = "Ok"
    /\ HeldBefore(f) # None
    /\ pre.index[f] # NoFile
    /\ calculate_hash(pre.index[f]) = HeldBefore(f).cleaned_file_hash
    /\ pre.wt[f] = pre.index[f]
    /\ op'.name = "post_commit" /\ res'.status = "Ok"

\* C34: a second clean phase before any restore never loses the original.
\* The record of the first clean phase holds the content that was staged
\* before it; when the clean phase has run again on what the first one left
\* staged, the restore phase that follows, with the working tree as the
\* second clean left it, writes that content back, for every pattern kind.
C34_SecondCleanKeepsOriginal ==
    [][RestoreAfterSecondClean(FileA) =>
          wt'[FileA] = HeldBefore(FileA).original_content]_vars

\* What holds for C34: with a LineRegex or BlockStartEnd pattern the second
\* clean phase finds nothing to remove and leaves the record alone, and an
\* on-disk store still has it for the restore phase.
SecondCleanKeepsOriginalWithoutLinePositions ==
    [][(/\ RestoreAfterSecondClean(FileA)
        /\ Strategy = TempFile
        /\ \A i \in DOMAIN PatternsFor(Loaded.files, FileA) :
              PatternsFor(Loaded.files, FileA)[i].pattern_type
                  \in {LineRegex, BlockStartEnd}) =>
          wt'[FileA] = HeldBefore(FileA).original_content]_vars

\* the last operation was a clean phase on a file whose working-tree content
\* differed from its staged content, and a restore phase follows it at once
RestoreAfterCleanOfEditedFile(f) ==
    /\ op.name = "pre_commit" /\ res.status = "Ok"
    /\ pre.index[f] # NoFile /\ pre.wt[f] # NoFile
    /\ pre.wt[f] # pre.index[f]
    /\ op'.name = "post_commit" /\ res'.status = "Ok"

\* C35: the clean/restore cycle does not discard unstaged edits: when the
\* working-tree content of a file differs from its staged content before the
\* clean phase, the working-tree content after the clean phase and the
\* restore phase that follows it is the one from before the clean phase.
C35_UnstagedEditsSurviveCycle ==
    [][RestoreAfterCleanOfEditedFile(FileA) =>
          wt'[FileA] = pre.wt[FileA]]_vars

\* What the cycle does for C35, with the on-disk store: a file the clean
\* phase did not write keeps its working-tree content, and a file it wrote
\* ends with the content that was staged, not with the one the working tree
\* had.
CycleYieldsStagedContent ==
    [][(RestoreAfterCleanOfEditedFile(FileA) /\ Strategy = TempFile) =>
          wt'[FileA] = IF index[FileA] = pre.index[FileA]
                       THEN pre.wt[FileA] ELSE pre.index[FileA]]_vars

\* verify_staging runs on the index a successful clean phase has just produced
VerifyAfterClean ==
    /\ op.name = "pre_commit" /\ res.status = "Ok"
    /\ op'.name = "verify"

\* C36: after a successful clean phase the staging area passes
\* verification: verify_staging on the index process_pre_commit produced
\* reports no violation, for every pattern kind and every staged content.
C36_CleanedIndexPassesVerify ==
    [][VerifyAfterClean =>
          /\ res'.status = "Ok"
          /\ res'.log = {}]_vars

\* What holds for C36: the index a clean phase produced under a LineRegex
\* or BlockStartEnd pattern passes verification.
CleanedIndexPassesVerifyWithoutLinePositions ==
    [][(/\ VerifyAfterClean
        /\ \A i \in DOMAIN PatternsFor(Loaded.files, FileA) :
              PatternsFor(Loaded.files, FileA)[i].pattern_type
                  \in {LineRegex, BlockStartEnd}) =>
          /\ res'.status = "Ok"
          /\ res'.log = {}]_vars

\* C37: the Backup Store stays usable after cleanup(): on the same
\* instance, a store_backup issued right after cleanup succeeds and leaves
\* the record live for the path, and the restore_backup of that path that
\* follows a successful store_backup returns the record; for the in-memory
\* and the on-disk backend.
C37_StoreUsableAfterCleanup ==
    [][/\ (op.name = "cleanup" /\ op'.name = "store_backup") =>
              /\ res'.status = "Ok"
              /\ HeldAfter(op'.path) = op'.data
       /\ (op.name = "store_backup" /\ res.status = "Ok"
           /\ op'.name = "restore_backup" /\ op'.path = op.path) =>
              res'.data = op.data]_vars

\* What holds for C37: the in-memory store takes a record after cleanup();
\* the on-disk store refuses it, its directory being gone, until the next
\* process creates the directory again.
StoreAfterCleanup ==
    [][(op.name = "cleanup" /\ op'.name = "store_backup") =>
          IF Strategy = Memory
          THEN res'.status = "Ok" /\ HeldAfter(op'.path) = op'.data
          ELSE res'.status = "Err" /\ backups' = EmptyMap]_vars

\* the places of a configuration's lists that hold a pattern with the id
PlacesOf(files, id) ==
    {<<k, i>> \in UNION {{<<key, n>> : n \in 1..Len(files[key])} :
                            key \in DOMAIN files} : files[k][i].id = id}

\* the loaded lists with a pattern appended to the list of a path
WithPattern(files, file_path, ignore_pattern) ==
    IF file_path \in DOMAIN files
    THEN [files EXCEPT ![file_path] = Append(@, ignore_pattern)]
    ELSE Put(files, file_path, <<ignore_pattern>>)

\* the loaded lists without the pattern of that id in the list of a path,
\* and without the path when nothing else is listed for it
WithoutPattern(files, file_path, pattern_id) ==
    IF file_path \notin DOMAIN files THEN files
    ELSE IF SelectSeq(files[file_path], LAMBDA q : q.id # pattern_id) = <<>>
         THEN Drop(files, file_path)
         ELSE [files EXCEPT ![file_path] =
                  SelectSeq(@, LAMBDA q : q.id # pattern_id)]

\* C38: configuration mutations change only what they name. After every
\* add_pattern and remove_pattern, with or without a global configuration,
\* the loaded configuration is the one loaded before the call with the one
\* pattern added to, or removed from, the list of the named path, and no
\* pattern id occurs more than once in it.
C38_MutationsChangeOnlyWhatTheyName ==
    [][/\ (op'.name = "add_pattern" /\ res'.status = "Ok") =>
              Loaded'.files =
                  WithPattern(Loaded.files, op'.file_path, op'.pattern)
       /\ (op'.name = "add_pattern" /\ res'.status = "Err") =>
              Loaded'.files = Loaded.files
       /\ (op'.name = "remove_pattern" /\ res'.status = "Ok") =>
              Loaded'.files =
                  WithoutPattern(Loaded.files, op'.file_path, op'.pattern_id)
       /\ op'.name \in {"add_pattern", "remove_pattern"} =>
              \A id \in UsedIds(Loaded'.files) :
                  Cardinality(PlacesOf(Loaded'.files, id)) = 1]_vars

\* What holds for C38: the file a mutation saves is the merged
\* configuration it loaded with the one change applied, so without a global
\* configuration the loaded configuration changes by that pattern alone and
\* no id is listed twice.
MutationsSaveTheMergedConfiguration ==
    [][/\ (op'.name = "add_pattern" /\ res'.status = "Ok") =>
              config'.files =
                  WithPattern(Loaded.files, op'.file_path, op'.pattern)
       /\ (op'.name = "remove_pattern" /\ res'.status = "Ok") =>
              config'.files =
                  WithoutPattern(Loaded.files, op'.file_path, op'.pattern_id)
       /\ (op'.name \in {"add_pattern", "remove_pattern"}
           /\ res'.status = "Ok" /\ global_config = None) =>
              /\ Loaded'.files = config'.files
              /\ \A id \in UsedIds(Loaded'.files) :
                    Cardinality(PlacesOf(Loaded'.files, id)) = 1]_vars

====
